---- MODULE Spec2Model ----
(***************************************************************************)
(* goBastion: the HTTP router (route table, middleware composition, path   *)
(* matching) and the rate-limit middleware of internal/framework.          *)
(*                                                                         *)
(* Strings are sequences of one-character strings, so that the string      *)
(* functions match() relies on (TrimSuffix, Trim, Split, HasPrefix,        *)
(* HasSuffix) are computed character by character as in Go.                *)
(***************************************************************************)
EXTENDS Naturals, Integers, Sequences, FiniteSets, TLC

VARIABLES
    routes,        \* Router.routes: sequence of Route records
    middlewares,   \* Router.middlewares: sequence of middleware values
    calls,         \* history: the Use / Handle calls made so far, in order
    req,           \* the request last given to ServeHTTP
    resp,          \* what ServeHTTP did with it
    \* the RateLimit middleware and its rateLimiter
    enabled,       \* cfg.Enabled
    limit,         \* rateLimiter.limit
    now,           \* the clock, in minutes since newRateLimiter
    visitors,      \* rateLimiter.visitors: client -> visitor object, 0 = no key
    requests,      \* visitor.requests of every visitor object allocated
    rlmu,          \* rateLimiter.mu: who holds it for writing, for reading
    vmu,           \* visitor.mu of every visitor object: who holds it
    pc,            \* where each request goroutine is in RateLimit / Allow
    loc,           \* its locals: ip, v
    out,           \* the outcome of the last request each goroutine finished
    accepted,      \* history: per client, the times of its accepted requests
    started,       \* history: number of requests started
    cl,            \* the cleanup goroutine: position, clients left, next tick
    \* one request going through a chain of middleware stages
    stage,         \* the handler the request is given to (stages around a base)
    sreq,          \* the request
    sres,          \* what came back: the response writer, the handler calls
    \* the view engine
    tmpl,          \* the content of the template file
    data,          \* the data handed to Render
    rendered,      \* what Render / RenderString / preprocess produced
    \* the chat broker and the stream handlers
    clients,       \* Broker.clients: the IDs of the clients in the map
    history,       \* Broker.history: per room, its messages
    broadcast,     \* Broker.broadcast: the buffered channel of messages
    done,          \* Broker.ctx is cancelled
    running,       \* the goroutine of Start is in its loop
    stream,        \* per client: its RoomID and where its stream handler is
    messages,      \* per client: the channel Client.Messages
    posted,        \* history: per room, the number of Broadcast calls
    handled,       \* history: per room, the number of broadcastMessage calls
    panics,        \* history: the run-time panics of the broker goroutine
    delivered      \* history: which client was sent a message of which room

rvars == <<routes, middlewares, calls, req, resp>>
lvars == <<enabled, limit, now, visitors, requests, rlmu, vmu, pc, loc, out,
           accepted, started, cl>>
mvars == <<stage, sreq, sres>>
tvars == <<tmpl, data, rendered>>
bvars == <<clients, history, broadcast, done, running, stream, messages,
           posted, handled, panics, delivered>>
vars == <<rvars, lvars, mvars, tvars, bvars>>

-----------------------------------------------------------------------------
(* Bounds *)

MaxRoutes == 2
MaxMiddlewares == 2
MaxPatternSegs == 3
MaxPathSegs == 3
MaxLimit == 2          \* largest requests-per-minute ceiling configured
MaxRequests == 3       \* requests started in a run
MaxTime == 5           \* minutes the clock runs with concurrent requests
MaxTimeSeq == 11       \* minutes the clock runs with sequential requests

-----------------------------------------------------------------------------
(* Go string functions used by match *)

Slash == "/"

\* strings.TrimSuffix(s, "/"): removes one trailing "/" if there is one
TrimSuffix(s) ==
    IF Len(s) > 0 /\ s[Len(s)] = Slash THEN SubSeq(s, 1, Len(s) - 1) ELSE s

RECURSIVE TrimLeft(_)
TrimLeft(s) ==
    IF Len(s) > 0 /\ s[1] = Slash THEN TrimLeft(Tail(s)) ELSE s

RECURSIVE TrimRight(_)
TrimRight(s) ==
    IF Len(s) > 0 /\ s[Len(s)] = Slash
    THEN TrimRight(SubSeq(s, 1, Len(s) - 1)) ELSE s

\* strings.Trim(s, "/"): removes every leading and every trailing "/"
Trim(s) == TrimRight(TrimLeft(s))

\* strings.Split(s, "/"): n separators give n+1 parts; Split("") is <<"">>
RECURSIVE Split(_)
Split(s) ==
    IF \E i \in 1..Len(s) : s[i] = Slash
    THEN LET i == CHOOSE k \in 1..Len(s) :
                      s[k] = Slash /\ \A j \in 1..(k - 1) : s[j] # Slash
         IN  <<SubSeq(s, 1, i - 1)>> \o Split(SubSeq(s, i + 1, Len(s)))
    ELSE <<s>>

\* strings.HasPrefix(part, "{") && strings.HasSuffix(part, "}")
IsParam(part) == Len(part) > 0 /\ part[1] = "{" /\ part[Len(part)] = "}"

\* strings.TrimPrefix(strings.TrimSuffix(part, "}"), "{")
ParamName(part) ==
    LET a == IF Len(part) > 0 /\ part[Len(part)] = "}"
             THEN SubSeq(part, 1, Len(part) - 1) ELSE part
    IN  IF Len(a) > 0 /\ a[1] = "{" THEN Tail(a) ELSE a

\* params[name] = value on a Go map
MapSet(m, k, v) == [x \in (DOMAIN m) \cup {k} |-> IF x = k THEN v ELSE m[x]]

EmptyMap == << >>

NoMatch == [ok |-> FALSE, params |-> EmptyMap]

\* (mutant) the loop of match binding the pattern part instead of the path part
RECURSIVE MatchPartsBindPattern(_, _, _, _)
MatchPartsBindPattern(patternParts, pathParts, i, params) ==
    IF i > Len(patternParts) THEN [ok |-> TRUE, params |-> params]
    ELSE IF IsParam(patternParts[i])
         THEN MatchPartsBindPattern(patternParts, pathParts, i + 1,
                  MapSet(params, ParamName(patternParts[i]), patternParts[i]))
         ELSE IF patternParts[i] # pathParts[i] THEN NoMatch
              ELSE MatchPartsBindPattern(patternParts, pathParts, i + 1, params)

\* the for loop of match over the parts
RECURSIVE MatchParts(_, _, _, _)
MatchParts(patternParts, pathParts, i, params) ==
    IF i > Len(patternParts) THEN [ok |-> TRUE, params |-> params]
    ELSE IF IsParam(patternParts[i])
         THEN MatchParts(patternParts, pathParts, i + 1,
                         MapSet(params, ParamName(patternParts[i]), pathParts[i]))
         ELSE IF patternParts[i] # pathParts[i] THEN NoMatch
              ELSE MatchParts(patternParts, pathParts, i + 1, params)

\* (mutant) match with strings.TrimPrefix in place of strings.Trim
matchTrimPrefix(pattern0, path0) ==
    LET pattern == TrimSuffix(pattern0)
        path    == TrimSuffix(path0)
        TrimPrefix(s) == IF Len(s) > 0 /\ s[1] = Slash THEN Tail(s) ELSE s
    IN  IF pattern = << >> /\ path = << >>
        THEN [ok |-> TRUE, params |-> EmptyMap]
        ELSE LET patternParts == Split(TrimPrefix(pattern))
                 pathParts    == Split(TrimPrefix(path))
             IN  IF Len(patternParts) # Len(pathParts) THEN NoMatch
                 ELSE MatchParts(patternParts, pathParts, 1, EmptyMap)

\* func match(pattern, path string) (map[string]string, bool)
match(pattern0, path0) ==
    LET pattern == TrimSuffix(pattern0)
        path    == TrimSuffix(path0)
    IN  IF pattern = << >> /\ path = << >>
        THEN [ok |-> TRUE, params |-> EmptyMap]
        ELSE LET patternParts == Split(Trim(pattern))
                 pathParts    == Split(Trim(path))
             IN  IF Len(patternParts) # Len(pathParts) THEN NoMatch
                 ELSE MatchParts(patternParts, pathParts, 1, EmptyMap)

-----------------------------------------------------------------------------
(* Handlers and middlewares *)

\* A Handler value is either a terminal handler [base |-> id] or the closure
\* a middleware returned, [mw |-> id, next |-> Handler].
BaseHandler(id) == [base |-> id]
IsBase(h) == "base" \in DOMAIN h

\* Middleware: mw(h) returns a handler that runs mw's code around h
Wrap(mw, h) == [mw |-> mw, next |-> h]

\* (mutant) the loop of Handle running forwards: the last middleware ends up
\* outermost
RECURSIVE ComposeForward(_, _, _)
ComposeForward(mws, i, h) ==
    IF i < 1 THEN h ELSE Wrap(mws[i], ComposeForward(mws, i - 1, h))

\* the loop of Handle: for i := len(mws)-1; i >= 0; i-- { h = mws[i](h) }
RECURSIVE Compose(_, _, _)
Compose(mws, i, h) ==
    IF i < 1 THEN h ELSE Compose(mws, i - 1, Wrap(mws[i], h))

\* Calling a handler: the events it produces, in order.  A middleware runs
\* its code before next (pre), calls next, and runs its code after next
\* returned, deferred code included (post).
RECURSIVE Run(_, _)
Run(h, params) ==
    IF IsBase(h)
    THEN << [ev |-> "handler", id |-> h.base, params |-> params] >>
    ELSE << [ev |-> "pre", id |-> h.mw] >>
         \o Run(h.next, params)
         \o << [ev |-> "post", id |-> h.mw] >>

-----------------------------------------------------------------------------
(* Router *)

\* (mutant) the loop of ServeHTTP without its return: the last match wins
RECURSIVE DispatchLast(_, _, _, _)
DispatchLast(rs, i, method, path) ==
    IF i > Len(rs) THEN 0
    ELSE LET later == DispatchLast(rs, i + 1, method, path)
         IN  IF later # 0 THEN later
             ELSE IF rs[i].Method = method /\ match(rs[i].Pattern, path).ok
                  THEN i ELSE 0

\* (mutant) the loop of ServeHTTP without the method test
RECURSIVE DispatchAnyMethod(_, _, _, _)
DispatchAnyMethod(rs, i, method, path) ==
    IF i > Len(rs) THEN 0
    ELSE IF match(rs[i].Pattern, path).ok THEN i
         ELSE DispatchAnyMethod(rs, i + 1, method, path)

\* the loop of ServeHTTP: index of the route it calls, 0 when it falls through
RECURSIVE Dispatch(_, _, _, _)
Dispatch(rs, i, method, path) ==
    IF i > Len(rs) THEN 0
    ELSE IF rs[i].Method # method THEN Dispatch(rs, i + 1, method, path)
         ELSE IF match(rs[i].Pattern, path).ok THEN i
              ELSE Dispatch(rs, i + 1, method, path)

NoRequest == [method |-> "none", path |-> << >>]
NoResponse ==
    [status |-> 0, route |-> 0, params |-> EmptyMap, trace |-> << >>,
     nroutes |-> 0]

\* (mutant) Use that also wraps the routes registered so far
UseRetroactive(mw) ==
    /\ Len(middlewares) < MaxMiddlewares
    /\ middlewares' = Append(middlewares, mw)
    /\ routes' = [r \in 1..Len(routes) |->
                     [routes[r] EXCEPT !.Handler = Wrap(mw, @)]]
    /\ calls' = Append(calls, [op |-> "Use", mw |-> mw])
    /\ UNCHANGED <<req, resp>>
    /\ UNCHANGED <<lvars, mvars, tvars, bvars>>

\* func (r *Router) Use(mw Middleware)
Use(mw) ==
    /\ Len(middlewares) < MaxMiddlewares
    /\ middlewares' = Append(middlewares, mw)
    /\ calls' = Append(calls, [op |-> "Use", mw |-> mw])
    /\ UNCHANGED <<routes, req, resp>>
    /\ UNCHANGED <<lvars, mvars, tvars, bvars>>

\* func (r *Router) Handle(method, pattern string, h Handler)
Handle(method, pattern, h) ==
    /\ Len(routes) < MaxRoutes
    /\ routes' = Append(routes,
                        [Method  |-> method,
                         Pattern |-> pattern,
                         Handler |-> Compose(middlewares, Len(middlewares),
                                             BaseHandler(h))])
    /\ calls' = Append(calls, [op |-> "Handle", method |-> method,
                               pattern |-> pattern, h |-> h])
    /\ UNCHANGED <<middlewares, req, resp>>
    /\ UNCHANGED <<lvars, mvars, tvars, bvars>>

\* A router that sends the unmatched request through the registered chain
ServeHTTPChained(method, path) ==
    LET i == Dispatch(routes, 1, method, path)
    IN  /\ req' = [method |-> method, path |-> path]
        /\ resp' = IF i = 0
                   THEN [status |-> 404, route |-> 0, params |-> EmptyMap,
                         trace |-> Run(Compose(middlewares, Len(middlewares),
                                               BaseHandler("notfound")),
                                       EmptyMap),
                         nroutes |-> Len(routes)]
                   ELSE [status |-> 200, route |-> i,
                         params |-> match(routes[i].Pattern, path).params,
                         trace |-> Run(routes[i].Handler,
                                       match(routes[i].Pattern, path).params),
                         nroutes |-> Len(routes)]
        /\ UNCHANGED <<routes, middlewares, calls>>
        /\ UNCHANGED <<lvars, mvars, tvars, bvars>>

\* func (r *Router) GET(pattern string, h Handler), and its siblings
GET(pattern, h) == Handle("GET", pattern, h)
POST(pattern, h) == Handle("POST", pattern, h)
PUT(pattern, h) == Handle("PUT", pattern, h)
DELETE(pattern, h) == Handle("DELETE", pattern, h)
PATCH(pattern, h) == Handle("PATCH", pattern, h)

\* (mutant) a router that gives an OPTIONS request to the first route whose
\* pattern matches, whatever the route's method
ServeHTTPPreflight(method, path) ==
    LET i == IF method = "OPTIONS"
             THEN DispatchAnyMethod(routes, 1, method, path)
             ELSE Dispatch(routes, 1, method, path)
    IN  /\ req' = [method |-> method, path |-> path]
        /\ resp' = IF i = 0
                   THEN [status |-> 404, route |-> 0, params |-> EmptyMap,
                         trace |-> << >>, nroutes |-> Len(routes)]
                   ELSE [status |-> 200, route |-> i,
                         params |-> match(routes[i].Pattern, path).params,
                         trace |-> Run(routes[i].Handler,
                                       match(routes[i].Pattern, path).params),
                         nroutes |-> Len(routes)]
        /\ UNCHANGED <<routes, middlewares, calls>>
        /\ UNCHANGED <<lvars, mvars, tvars, bvars>>

\* func (r *Router) ServeHTTP(w http.ResponseWriter, req *http.Request)
ServeHTTP(method, path) ==
    LET i == Dispatch(routes, 1, method, path)
    IN  /\ req' = [method |-> method, path |-> path]
        \* resp.nroutes: how many routes were registered when it was served
        /\ resp' = IF i = 0
                   THEN [status |-> 404, route |-> 0,
                         params |-> EmptyMap, trace |-> << >>,
                         nroutes |-> Len(routes)]
                   ELSE LET params == match(routes[i].Pattern, path).params
                        IN  [status |-> 200, route |-> i, params |-> params,
                             trace |-> Run(routes[i].Handler, params),
                             nroutes |-> Len(routes)]
        /\ UNCHANGED <<routes, middlewares, calls>>
        /\ UNCHANGED <<lvars, mvars, tvars, bvars>>


-----------------------------------------------------------------------------
(* The middleware stages of package middleware.  A request goes down a     *)
(* chain of stages to a base handler; what comes back is the response      *)
(* writer as the client will see it, the panic in flight if there is one,  *)
(* and the request contexts the base handler was invoked with.             *)

\* a fresh http.ResponseWriter: nothing sent yet
NewWriter ==
    [wroteHeader |-> FALSE, statusCode |-> 200, header |-> {}, body |-> << >>]

\* w.WriteHeader(code): the first call commits the status line and the
\* headers; a later call is superfluous and changes nothing
WriteHeader(w, code) ==
    IF w.wroteHeader THEN w
    ELSE [w EXCEPT !.wroteHeader = TRUE, !.statusCode = code]

\* w.Header().Set(k, v): reaches the client only before the headers are sent
SetHeader(w, k, v) ==
    IF w.wroteHeader THEN w
    ELSE [w EXCEPT !.header = {p \in @ : p[1] # k} \cup {<<k, v>>}]

\* one piece of body: its text and the request ID printed in it, if any
Chunk(text, id) == [text |-> text, request_id |-> id]

\* w.Write(data): sends the headers with 200 if they are not sent yet
Write(w, chunk) ==
    LET w1 == WriteHeader(w, 200)
    IN  [w1 EXCEPT !.body = Append(@, chunk)]

\* what a call returns: the writer, the panic still in flight (<< >> when
\* it returned normally), the contexts the base handler saw
Returned(w, seen) == [w |-> w, panic |-> << >>, seen |-> seen]
Panicked(w, value, seen) == [w |-> w, panic |-> <<value>>, seen |-> seen]

\* the context of a request: its values under requestIDKey and claimsKey
NoID == "none"
EmptyContext == [requestID |-> NoID, claims |-> << >>]

\* GetRequestID(ctx)
GetRequestID(ctx) ==
    IF ctx.requestID # NoID THEN ctx.requestID ELSE "unknown"

\* GetClaims(ctx): << >> is nil
GetClaims(ctx) == ctx.claims

\* strings.HasPrefix
HasPrefix(s, prefix) ==
    /\ Len(s) >= Len(prefix)
    /\ SubSeq(s, 1, Len(prefix)) = prefix

skipPaths ==
    << <<"/", "a", "p", "i", "/", "v", "1", "/", "a", "u", "t", "h", "/", "r", "e", "g", "i", "s", "t", "e", "r">>,
       <<"/", "a", "p", "i", "/", "v", "1", "/", "a", "u", "t", "h", "/", "l", "o", "g", "i", "n">>,
       <<"/", "d", "o", "c", "s">>,
       <<"/", "d", "o", "c", "s", "/", "o", "p", "e", "n", "a", "p", "i", ".", "j", "s", "o", "n">>,
       <<"/", "l", "o", "g", "i", "n">>,
       <<"/", "r", "e", "g", "i", "s", "t", "e", "r">> >>

\* (mutant) shouldSkipAuth that compares the whole path
shouldSkipAuthExact(path) ==
    \E i \in 1..Len(skipPaths) : path = skipPaths[i]

\* shouldSkipAuth(path)
shouldSkipAuth(path) ==
    \E i \in 1..Len(skipPaths) : HasPrefix(path, skipPaths[i])

ApiPrefix == <<"/", "a", "p", "i", "/">>

\* the base handlers a chain ends in: the handler of a route
\*   ok         writes its response and returns
\*   boomEarly  panics with "boom" before it has written anything
\*   boomLate   writes the beginning of its response, then panics with "boom"
\*   errEarly   panics with a runtime error before it has written anything
\*   errLate    writes the beginning of its response, then panics with one
StageHandlers == {"ok", "boomEarly", "boomLate", "errEarly", "errLate"}

HandlerBody(id, w, r) ==
    CASE id = "ok"        -> Returned(Write(w, Chunk("ok", "")), <<r.ctx>>)
      [] id = "boomEarly" -> Panicked(w, "boom", <<r.ctx>>)
      [] id = "boomLate"  -> Panicked(Write(w, Chunk("partial", "")), "boom",
                                      <<r.ctx>>)
      [] id = "errEarly"  -> Panicked(w, "runtime error", <<r.ctx>>)
      [] id = "errLate"   -> Panicked(Write(w, Chunk("partial", "")),
                                      "runtime error", <<r.ctx>>)

RECURSIVE Exec(_, _, _)

\* RequestID(): the generated ID goes in the context and in a header
RequestID(next, w, r) ==
    LET id == r.freshID
        r1 == [r EXCEPT !.ctx.requestID = id]
        w1 == SetHeader(w, "X-Request-ID", id)
    IN  Exec(next, w1, r1)

\* Recover printing the recovered value in the body
RecoverLeaking(next, w, r) ==
    LET n == Exec(next, w, r)
    IN  IF n.panic # << >>
        THEN LET requestID == GetRequestID(r.ctx)
                 w1 == SetHeader(n.w, "Content-Type", "application/json")
                 w2 == WriteHeader(w1, 500)
             IN  Returned(Write(w2, Chunk(n.panic[1], requestID)), n.seen)
        ELSE n

\* Recover: the deferred function runs when next panics
Recover(next, w, r) ==
    LET n == Exec(next, w, r)
    IN  IF n.panic # << >>
        THEN LET requestID == GetRequestID(r.ctx)
                 w1 == SetHeader(n.w, "Content-Type", "application/json")
                 w2 == WriteHeader(w1, 500)
             IN  Returned(Write(w2, Chunk("Internal server error", requestID)),
                          n.seen)
        ELSE n

\* the headers CORSMiddleware sets
CORSHeaders ==
    {"Access-Control-Allow-Origin", "Access-Control-Allow-Methods",
     "Access-Control-Allow-Headers", "Access-Control-Allow-Credentials",
     "Access-Control-Max-Age"}

\* (mutant) CORSMiddleware that goes on to the handler for OPTIONS too
CORSNoPreflight(allowedOrigins, next, w, r) ==
    LET origin == r.origin
        allowed == \E i \in 1..Len(allowedOrigins) :
                      allowedOrigins[i] = "*" \/ allowedOrigins[i] = origin
        w1 == IF allowed
              THEN SetHeader(SetHeader(SetHeader(SetHeader(SetHeader(w,
                     "Access-Control-Allow-Origin", origin),
                     "Access-Control-Allow-Methods",
                         "GET, POST, PUT, PATCH, DELETE, OPTIONS"),
                     "Access-Control-Allow-Headers",
                         "Content-Type, Authorization, X-CSRF-Token"),
                     "Access-Control-Allow-Credentials", "true"),
                     "Access-Control-Max-Age", "86400")
              ELSE w
    IN  Exec(next, w1, r)

\* CORSMiddleware(allowedOrigins)
CORSMiddleware(allowedOrigins, next, w, r) ==
    LET origin == r.origin
        allowed == \E i \in 1..Len(allowedOrigins) :
                      allowedOrigins[i] = "*" \/ allowedOrigins[i] = origin
        w1 == IF allowed
              THEN SetHeader(SetHeader(SetHeader(SetHeader(SetHeader(w,
                     "Access-Control-Allow-Origin", origin),
                     "Access-Control-Allow-Methods",
                         "GET, POST, PUT, PATCH, DELETE, OPTIONS"),
                     "Access-Control-Allow-Headers",
                         "Content-Type, Authorization, X-CSRF-Token"),
                     "Access-Control-Allow-Credentials", "true"),
                     "Access-Control-Max-Age", "86400")
              ELSE w
    IN  IF r.method = "OPTIONS"
        THEN Returned(WriteHeader(w1, 204), << >>)
        ELSE Exec(next, w1, r)

\* what is known of a CSRF token string: whether it is base64url, how many
\* bytes it decodes to, and the secret its last 32 bytes are an HMAC under
\*   t1, t2   made by GenerateCSRFToken(secret)
\*   forged   64 bytes, not signed with the secret
\*   short    32 bytes
\*   notb64   not base64url
CSRFTokenInfo(token) ==
    CASE token \in {"t1", "t2"} -> [decodes |-> TRUE, len |-> 64,
                                   key |-> "secret"]
      [] token = "forged"       -> [decodes |-> TRUE, len |-> 64,
                                   key |-> "other"]
      [] token = "short"        -> [decodes |-> TRUE, len |-> 32,
                                   key |-> "none"]
      [] OTHER                  -> [decodes |-> FALSE, len |-> 0,
                                   key |-> "none"]

\* (mutant) ValidateCSRFToken comparing nothing: any non-empty pair passes
ValidateCSRFTokenAny(secret, cookieToken, headerToken) ==
    ~ (cookieToken = "" \/ headerToken = "")

\* security.ValidateCSRFToken(secret, cookieToken, headerToken)
ValidateCSRFToken(secret, cookieToken, headerToken) ==
    IF cookieToken = "" \/ headerToken = "" THEN FALSE
    ELSE IF cookieToken # headerToken THEN FALSE
    ELSE LET decoded == CSRFTokenInfo(cookieToken)
         IN  IF ~ decoded.decodes THEN FALSE
             ELSE IF decoded.len < 64 THEN FALSE
             ELSE decoded.key = secret

\* CSRFMiddleware(cfg)
CSRFMiddleware(cfg, next, w, r) ==
    IF ~ cfg.EnableCSRF THEN Exec(next, w, r)
    ELSE IF shouldSkipAuth(r.path) \/ HasPrefix(r.path, ApiPrefix)
    THEN Exec(next, w, r)
    ELSE IF r.method \in {"GET", "HEAD", "OPTIONS"}
    THEN LET w1 == IF r.csrfCookie = << >> \/ r.csrfCookie[1] = ""
                   THEN SetHeader(w, "Set-Cookie", r.freshToken)
                   ELSE w
         IN  Exec(next, w1, r)
    ELSE IF r.csrfCookie = << >>
    THEN Returned(Write(WriteHeader(w, 403), Chunk("CSRF token missing", "")),
                  << >>)
    ELSE LET headerToken == r.csrfHeader
         IN  IF ~ ValidateCSRFToken(cfg.JWTSecret, r.csrfCookie[1], headerToken)
             THEN Returned(Write(WriteHeader(w, 403),
                                 Chunk("CSRF token invalid", "")), << >>)
             ELSE Exec(next, w, r)

\* a JWT as ParseAndValidateToken sees it: whether the string is empty, the
\* number of parts between dots, the secret its third part is a signature
\* of the first two under, whether its second part decodes into Claims, and
\* those claims
NoClaims == [Sub |-> "", Role |-> "", Exp |-> 0]
EmptyToken ==
    [empty |-> TRUE, nparts |-> 1, key |-> "none", decodes |-> FALSE,
     claims |-> NoClaims]

\* ExtractBearerToken(authHeader): << >> is the error
ExtractBearerToken(authHeader) ==
    IF authHeader.words = 0 THEN << >>
    ELSE IF authHeader.words # 2 \/ authHeader.first # "Bearer" THEN << >>
    ELSE <<authHeader.second>>

\* (mutant) ParseAndValidateToken that does not look at the expiry
ParseAndValidateTokenNoExp(secret, token, clock) ==
    IF token.nparts # 3 THEN << >>
    ELSE IF token.key # secret THEN << >>
    ELSE IF ~ token.decodes THEN << >>
    ELSE <<token.claims>>

\* security.ParseAndValidateToken(secret, token) at time clock
ParseAndValidateToken(secret, token, clock) ==
    IF token.nparts # 3 THEN << >>
    ELSE IF token.key # secret THEN << >>
    ELSE IF ~ token.decodes THEN << >>
    ELSE IF token.claims.Exp < clock THEN << >>
    ELSE <<token.claims>>

Unauthorized(w, text) ==
    Returned(Write(WriteHeader(SetHeader(w, "Content-Type",
                                         "application/json"), 401),
                   Chunk(text, "")), << >>)

\* JWTAuthMiddleware(cfg)
JWTAuthMiddleware(cfg, next, w, r) ==
    IF ~ cfg.EnableJWT THEN Exec(next, w, r)
    ELSE IF shouldSkipAuth(r.path) THEN Exec(next, w, r)
    ELSE LET fromHeader == r.authHeader.words # 0
             extracted == ExtractBearerToken(r.authHeader)
         IN  IF fromHeader /\ extracted = << >>
             THEN Unauthorized(w, "Invalid authorization header")
             ELSE IF ~ fromHeader
                     /\ (r.authCookie = << >> \/ r.authCookie[1].empty)
             THEN Unauthorized(w, "Missing authorization header or cookie")
             ELSE LET token == IF fromHeader THEN extracted[1]
                               ELSE r.authCookie[1]
                      claims == ParseAndValidateToken(cfg.JWTSecret, token,
                                                      r.clock)
                  IN  IF claims = << >>
                      THEN Unauthorized(w, "Invalid or expired token")
                      ELSE Exec(next, w, [r EXCEPT !.ctx.claims = claims])

\* (mutant) RequireRole that lets every authenticated identity through
RequireRoleAnyIdentity(role, next, w, r) ==
    LET claims == GetClaims(r.ctx)
    IN  IF claims = << >>
        THEN Unauthorized(w, "Authentication required")
        ELSE Exec(next, w, r)

\* RequireRole(role)
RequireRole(role, next, w, r) ==
    LET claims == GetClaims(r.ctx)
    IN  IF claims = << >>
        THEN Unauthorized(w, "Authentication required")
        ELSE IF claims[1].Role # role /\ claims[1].Role # "admin"
        THEN Returned(Write(WriteHeader(SetHeader(w, "Content-Type",
                                                  "application/json"), 403),
                            Chunk("Insufficient permissions", "")), << >>)
        ELSE Exec(next, w, r)

\* the stages as middleware values
RequestIDStage == [kind |-> "RequestID"]
RecoverStage == [kind |-> "Recover"]
CORSStage(allowedOrigins) == [kind |-> "CORS", allowedOrigins |-> allowedOrigins]
CSRFStage(cfg) == [kind |-> "CSRF", cfg |-> cfg]
JWTStage(cfg) == [kind |-> "JWT", cfg |-> cfg]
RoleStage(role) == [kind |-> "RequireRole", role |-> role]

\* calling the handler h with (w, r)
Exec(h, w, r) ==
    IF IsBase(h) THEN HandlerBody(h.base, w, r)
    ELSE CASE h.mw.kind = "RequestID" -> RequestID(h.next, w, r)
           [] h.mw.kind = "Recover" -> Recover(h.next, w, r)
           [] h.mw.kind = "CORS" ->
                  CORSMiddleware(h.mw.allowedOrigins, h.next, w, r)
           [] h.mw.kind = "CSRF" -> CSRFMiddleware(h.mw.cfg, h.next, w, r)
           [] h.mw.kind = "JWT" -> JWTAuthMiddleware(h.mw.cfg, h.next, w, r)
           [] h.mw.kind = "RequireRole" ->
                  RequireRole(h.mw.role, h.next, w, r)

\* a request with nothing in it
BlankRequest ==
    [method |-> "GET", path |-> <<"/">>, origin |-> "",
     csrfCookie |-> << >>, csrfHeader |-> "", csrfForm |-> "",
     authHeader |-> [words |-> 0, first |-> "", second |-> EmptyToken],
     authCookie |-> << >>, clock |-> 0, freshID |-> "id1",
     freshToken |-> "t1", ctx |-> EmptyContext]

NoStageResult == Returned(NewWriter, << >>)

\* the server gives the request r to the handler h
ServeStage(h, r) ==
    /\ stage' = h
    /\ sreq' = r
    /\ sres' = Exec(h, NewWriter, r)

\* no request has gone through any stage
NoStage ==
    /\ stage = BaseHandler("ok")
    /\ sreq = BlankRequest
    /\ sres = NoStageResult

-----------------------------------------------------------------------------
(* The view engine (package view).  The content of a template is a         *)
(* sequence of characters; the three regular expressions of preprocess are *)
(* computed on it character by character.                                  *)

NL == "\n"
Letters ==
    {"a", "b", "c", "d", "e", "f", "g", "h", "i", "j", "k", "l", "m",
     "n", "o", "p", "q", "r", "s", "t", "u", "v", "w", "x", "y", "z",
     "A", "B", "C", "D", "E", "F", "G", "H", "I", "J", "K", "L", "M",
     "N", "O", "P", "Q", "R", "S", "T", "U", "V", "W", "X", "Y", "Z"}
Digits == {"0", "1", "2", "3", "4", "5", "6", "7", "8", "9"}

\* the character classes of the regular expressions
\*   [a-zA-Z_.]   [a-zA-Z0-9_.]   [ \t]   \s
EchoStart(c) == c \in Letters \cup {"_", "."}
EchoPart(c) == c \in Letters \cup Digits \cup {"_", "."}
Blank(c) == c \in {" ", "\t"}
Space(c) == c \in {" ", "\t", "\n", "\r", "\f"}

\* the string lit is in s at position i
HasAt(s, i, lit) ==
    /\ i + Len(lit) - 1 <= Len(s)
    /\ SubSeq(s, i, i + Len(lit) - 1) = lit

\* the first position from i on whose character is not in the class
RECURSIVE SkipPart(_, _)
SkipPart(s, i) ==
    IF i <= Len(s) /\ EchoPart(s[i]) THEN SkipPart(s, i + 1) ELSE i
RECURSIVE SkipBlank(_, _)
SkipBlank(s, i) ==
    IF i <= Len(s) /\ Blank(s[i]) THEN SkipBlank(s, i + 1) ELSE i
RECURSIVE SkipSpace(_, _)
SkipSpace(s, i) ==
    IF i <= Len(s) /\ Space(s[i]) THEN SkipSpace(s, i + 1) ELSE i

\* the first position from i on that holds the character c, Len(s) + 1 if none
RECURSIVE Find(_, _, _)
Find(s, i, c) ==
    IF i > Len(s) \/ s[i] = c THEN i ELSE Find(s, i + 1, c)

\* (?m)^ and (?m)$ at position i, that is before the character s[i]
AtLineStart(s, i) == i = 1 \/ s[i - 1] = NL
AtLineEnd(s, i) == i > Len(s) \/ s[i] = NL

\* where the match of  @([a-zA-Z_.][a-zA-Z0-9_.]*(?:\([^)]*\))?)  that begins
\* at the @ of position i ends: the run, then the group if it can match
EchoEnd(s, i) ==
    LET run == SkipPart(s, i + 2) - 1
        close == Find(s, run + 2, ")")
    IN  IF run + 1 <= Len(s) /\ s[run + 1] = "(" /\ close <= Len(s)
        THEN close
        ELSE run

\* (mutant) the echo expression taken without its argument list
RECURSIVE echoNoArguments(_, _)
echoNoArguments(s, i) ==
    IF i > Len(s) THEN << >>
    ELSE IF s[i] = "@" /\ i + 1 <= Len(s) /\ EchoStart(s[i + 1])
    THEN LET e == SkipPart(s, i + 2) - 1
         IN  <<"{", "{", " ">> \o SubSeq(s, i + 1, e) \o <<" ", "}", "}">>
             \o echoNoArguments(s, e + 1)
    ELSE <<s[i]>> \o echoNoArguments(s, i + 1)

\* echoRegex.ReplaceAllStringFunc(content, ...) from position i on
RECURSIVE echo(_, _)
echo(s, i) ==
    IF i > Len(s) THEN << >>
    ELSE IF s[i] = "@" /\ i + 1 <= Len(s) /\ EchoStart(s[i + 1])
    THEN LET e == EchoEnd(s, i)
         IN  <<"{", "{", " ">> \o SubSeq(s, i + 1, e) \o <<" ", "}", "}">>
             \o echo(s, e + 1)
    ELSE <<s[i]>> \o echo(s, i + 1)

GoMarker == <<"g", "o", ":", ":">>
EndMarker == <<":", ":", "e", "n", "d">>

\* the match of  (?m)^[ \t]*go::\s*(.+?)[ \t]*$  at the line start i:
\* from, to are the ends of the group, end is the last character matched;
\* \s* gives back what it took until the group has a character that is not
\* a newline to begin with, and the lazy group stops at the first character
\* after which the line holds blanks only
NoGroup == [from |-> 0, to |-> 0, end |-> 0]
goBlockMatch(s, i) ==
    LET j == SkipBlank(s, i)
        q == j + Len(GoMarker)
        starts == {p \in q..SkipSpace(s, q) : p <= Len(s) /\ s[p] # NL}
    IN  IF ~ HasAt(s, j, GoMarker) \/ starts = {} THEN NoGroup
        ELSE LET from == CHOOSE p \in starts : \A p2 \in starts : p2 <= p
                 eol == Find(s, from, NL)
                 to == CHOOSE e \in from..(eol - 1) :
                           /\ SkipBlank(s, e + 1) = eol
                           /\ \A e2 \in from..(e - 1) :
                                 SkipBlank(s, e2 + 1) # eol
             IN  [from |-> from, to |-> to, end |-> eol - 1]

\* goBlockRegex.ReplaceAllString(content, "{{ $1 }}") from position i on
RECURSIVE goBlocks(_, _)
goBlocks(s, i) ==
    IF i > Len(s) THEN << >>
    ELSE LET m == goBlockMatch(s, i)
         IN  IF AtLineStart(s, i) /\ m # NoGroup
             THEN <<"{", "{", " ">> \o SubSeq(s, m.from, m.to)
                  \o <<" ", "}", "}">> \o goBlocks(s, m.end + 1)
             ELSE <<s[i]>> \o goBlocks(s, i + 1)

\* the last character of the match of  (?m)^[ \t]*::end[ \t]*$  at the line
\* start i, 0 when it does not match
endBlockMatch(s, i) ==
    LET j == SkipBlank(s, i)
        k == SkipBlank(s, j + Len(EndMarker))
    IN  IF HasAt(s, j, EndMarker) /\ AtLineEnd(s, k) THEN k - 1 ELSE 0

\* endBlockRegex.ReplaceAllString(content, "{{ end }}") from position i on
RECURSIVE endBlocks(_, _)
endBlocks(s, i) ==
    IF i > Len(s) THEN << >>
    ELSE IF AtLineStart(s, i) /\ endBlockMatch(s, i) # 0
    THEN <<"{", "{", " ", "e", "n", "d", " ", "}", "}">>
         \o endBlocks(s, endBlockMatch(s, i) + 1)
    ELSE <<s[i]>> \o endBlocks(s, i + 1)

\* Engine.preprocess(content)
preprocess(content) == endBlocks(goBlocks(echo(content, 1), 1), 1)

\* no template has been rendered
\* ---- template.New(name).Funcs(e.funcs).Parse(processed) ----

LeftDelim == <<"{", "{">>
RightDelim == <<"}", "}">>

\* the first position from i on where lit starts in s, 0 if none
RECURSIVE FindLit(_, _, _)
FindLit(s, i, lit) ==
    IF i + Len(lit) - 1 > Len(s) THEN 0
    ELSE IF HasAt(s, i, lit) THEN i
    ELSE FindLit(s, i + 1, lit)

TextItem(t) == [kind |-> "text", text |-> t]
ActionItem(t) == [kind |-> "action", text |-> t]
ErrorItem == [kind |-> "error", text |-> << >>]

\* the items of the processed content from position i on: the text between
\* actions, the actions between {{ and }}, and an error item, which ends
\* the list, for an action that is not closed or holds a brace
RECURSIVE Lex(_, _)
Lex(s, i) ==
    LET p == FindLit(s, i, LeftDelim)
        before(e) == IF e >= i THEN <<TextItem(SubSeq(s, i, e))>> ELSE << >>
    IN  IF p = 0 THEN before(Len(s))
        ELSE LET q == FindLit(s, p + 2, RightDelim)
             IN  IF q = 0 THEN before(p - 1) \o <<ErrorItem>>
                 ELSE IF \E k \in (p + 2)..(q - 1) : s[k] \in {"{", "}"}
                 THEN before(p - 1) \o <<ErrorItem>>
                 ELSE before(p - 1)
                      \o <<ActionItem(SubSeq(s, p + 2, q - 1))>>
                      \o Lex(s, q + 2)

\* the words of an action: spaces and parentheses separate them, f(x) being
\* the call of f with the parenthesised operand x
Separator(c) == Space(c) \/ c \in {"(", ")"}

RECURSIVE SkipSeparators(_, _)
SkipSeparators(t, i) ==
    IF i <= Len(t) /\ Separator(t[i]) THEN SkipSeparators(t, i + 1) ELSE i

RECURSIVE SkipWord(_, _)
SkipWord(t, i) ==
    IF i <= Len(t) /\ ~ Separator(t[i]) THEN SkipWord(t, i + 1) ELSE i

RECURSIVE Words(_, _)
Words(t, i) ==
    LET b == SkipSeparators(t, i)
    IN  IF b > Len(t) THEN << >>
        ELSE <<SubSeq(t, b, SkipWord(t, b) - 1)>> \o Words(t, SkipWord(t, b))

\* every ) of the action closes a ( and every ( is closed
RECURSIVE ParensMatch(_, _, _)
ParensMatch(t, i, depth) ==
    IF i > Len(t) THEN depth = 0
    ELSE IF t[i] = "(" THEN ParensMatch(t, i + 1, depth + 1)
    ELSE IF t[i] = ")" THEN depth > 0 /\ ParensMatch(t, i + 1, depth - 1)
    ELSE ParensMatch(t, i + 1, depth)

KwIf == <<"i", "f">>
KwRange == <<"r", "a", "n", "g", "e">>
KwWith == <<"w", "i", "t", "h">>
KwElse == <<"e", "l", "s", "e">>
KwEnd == <<"e", "n", "d">>
Openers == {KwIf, KwRange, KwWith}

\* e.funcs, as NewEngine fills it
funcs ==
    {<<"u", "p", "p", "e", "r">>, <<"l", "o", "w", "e", "r">>,
     <<"t", "i", "t", "l", "e">>}

\* the comparison and boolean helpers the template library predefines
Builtins ==
    {<<"e", "q">>, <<"n", "e">>, <<"n", "o", "t">>, <<"a", "n", "d">>,
     <<"o", "r">>}

\* the names of the field chain w from its dot of position i on
RECURSIVE FieldsOf(_, _)
FieldsOf(w, i) ==
    IF i >= Len(w) THEN << >>
    ELSE LET e == Find(w, i + 1, ".")
         IN  <<SubSeq(w, i + 1, e - 1)>> \o FieldsOf(w, e)

\* a field chain: the dot alone, or .Name.Name...
IsField(w) ==
    /\ w # << >>
    /\ w[1] = "."
    /\ \A k \in 1..Len(w) : EchoPart(w[k])
    /\ \/ Len(w) = 1
       \/ /\ w[Len(w)] # "."
          /\ \A k \in 1..Len(FieldsOf(w, 1)) :
                /\ FieldsOf(w, 1)[k] # << >>
                /\ FieldsOf(w, 1)[k][1] \notin Digits

\* a quoted string without spaces
IsString(w) ==
    /\ Len(w) >= 2
    /\ w[1] = "\""
    /\ w[Len(w)] = "\""
    /\ \A k \in 2..(Len(w) - 1) : w[k] # "\""

\* a pipeline the parser accepts: fields, strings and defined functions;
\* a function that is not defined is an error of Parse
PipelineOK(ws) ==
    /\ ws # << >>
    /\ \A k \in 1..Len(ws) :
          \/ IsField(ws[k])
          \/ IsString(ws[k])
          \/ ws[k] \in funcs \cup Builtins

Block(kind) == [kind |-> kind, elseSeen |-> FALSE]

\* ParseItems without the check that every block is closed at the end
RECURSIVE ParseItemsUnclosed(_, _, _)
ParseItemsUnclosed(items, i, open) ==
    IF i > Len(items) THEN TRUE
    ELSE IF items[i].kind = "error" THEN FALSE
    ELSE IF items[i].kind = "text" THEN ParseItemsUnclosed(items, i + 1, open)
    ELSE LET ws == Words(items[i].text, 1)
             n == Len(open)
         IN  IF ws = << >> \/ ~ ParensMatch(items[i].text, 1, 0) THEN FALSE
             ELSE IF ws = <<KwEnd>>
             THEN /\ n > 0
                  /\ ParseItemsUnclosed(items, i + 1, SubSeq(open, 1, n - 1))
             ELSE IF ws[1] = KwEnd THEN FALSE
             ELSE IF ws[1] = KwElse
             THEN /\ n > 0
                  /\ ~ open[n].elseSeen
                  /\ \/ /\ Len(ws) = 1
                        /\ ParseItemsUnclosed(items, i + 1,
                                      [open EXCEPT ![n].elseSeen = TRUE])
                     \/ /\ Len(ws) > 2
                        /\ ws[2] = open[n].kind
                        /\ ws[2] \in {KwIf, KwWith}
                        /\ PipelineOK(SubSeq(ws, 3, Len(ws)))
                        /\ ParseItemsUnclosed(items, i + 1, open)
             ELSE IF ws[1] \in Openers
             THEN /\ PipelineOK(Tail(ws))
                  /\ ParseItemsUnclosed(items, i + 1, Append(open, Block(ws[1])))
             ELSE /\ PipelineOK(ws)
                  /\ ParseItemsUnclosed(items, i + 1, open)

\* the parser over the items from i on, open holding the blocks not yet
\* closed, innermost last: TRUE iff Parse returns a template
RECURSIVE ParseItems(_, _, _)
ParseItems(items, i, open) ==
    IF i > Len(items) THEN open = << >>
    ELSE IF items[i].kind = "error" THEN FALSE
    ELSE IF items[i].kind = "text" THEN ParseItems(items, i + 1, open)
    ELSE LET ws == Words(items[i].text, 1)
             n == Len(open)
         IN  IF ws = << >> \/ ~ ParensMatch(items[i].text, 1, 0) THEN FALSE
             ELSE IF ws = <<KwEnd>>
             THEN /\ n > 0
                  /\ ParseItems(items, i + 1, SubSeq(open, 1, n - 1))
             ELSE IF ws[1] = KwEnd THEN FALSE
             ELSE IF ws[1] = KwElse
             THEN /\ n > 0
                  /\ ~ open[n].elseSeen
                  /\ \/ /\ Len(ws) = 1
                        /\ ParseItems(items, i + 1,
                                      [open EXCEPT ![n].elseSeen = TRUE])
                     \/ /\ Len(ws) > 2
                        /\ ws[2] = open[n].kind
                        /\ ws[2] \in {KwIf, KwWith}
                        /\ PipelineOK(SubSeq(ws, 3, Len(ws)))
                        /\ ParseItems(items, i + 1, open)
             ELSE IF ws[1] \in Openers
             THEN /\ PipelineOK(Tail(ws))
                  /\ ParseItems(items, i + 1, Append(open, Block(ws[1])))
             ELSE /\ PipelineOK(ws)
                  /\ ParseItems(items, i + 1, open)

\* template.Parse: the items of the template, or an error
Parsed(items) ==
    IF ParseItems(items, 1, << >>)
    THEN [err |-> FALSE, items |-> items]
    ELSE [err |-> TRUE, items |-> << >>]

Parse(processed) == Parsed(Lex(processed, 1))

\* ---- tmpl.Execute(w, data) ----

\* the values of an execution: a string, a string typed template.HTML, a
\* bool, no value (a key the context lacks), and the context map itself
Val(type, text) == [type |-> type, text |-> text]
Nil == Val("nil", << >>)
TheMap == Val("map", << >>)
Str(text) == Val("string", text)
HTML(text) == Val("HTML", text)
Bool(b) ==
    Val("bool", IF b THEN <<"t", "r", "u", "e">>
                ELSE <<"f", "a", "l", "s", "e">>)

Failed == [ok |-> FALSE, val |-> Nil]
Value(v) == [ok |-> TRUE, val |-> v]

\* the keys a context may hold, in the order the library visits them
FieldTitle == <<"T", "i", "t", "l", "e">>
FieldError == <<"E", "r", "r", "o", "r">>
FieldCSRFToken == <<"C", "S", "R", "F", "T", "o", "k", "e", "n">>
FieldNames == <<FieldCSRFToken, FieldError, FieldTitle>>
SortedKeys(root) == SelectSeq(FieldNames, LAMBDA n : n \in DOMAIN root)

\* v.Name: a key of the map, or no value when the map lacks it; a string,
\* a bool and no value have no fields
EvalField(v, name, root) ==
    IF v.type = "map"
    THEN Value(IF name \in DOMAIN root THEN root[name] ELSE Nil)
    ELSE Failed

RECURSIVE EvalChain(_, _, _)
EvalChain(names, v, root) ==
    IF names = << >> THEN Value(v)
    ELSE LET r == EvalField(v, Head(names), root)
         IN  IF r.ok THEN EvalChain(Tail(names), r.val, root) ELSE Failed

EvalOperand(w, dot, root) ==
    IF IsField(w) THEN EvalChain(FieldsOf(w, 1), dot, root)
    ELSE IF IsString(w) THEN Value(Str(SubSeq(w, 2, Len(w) - 1)))
    ELSE Failed

Truth(v, root) ==
    CASE v.type \in {"string", "HTML"} -> v.text # << >>
      [] v.type = "bool" -> v.text = Bool(TRUE).text
      [] v.type = "map" -> DOMAIN root # {}
      [] OTHER -> FALSE

LowerCase ==
    <<"a", "b", "c", "d", "e", "f", "g", "h", "i", "j", "k", "l", "m",
      "n", "o", "p", "q", "r", "s", "t", "u", "v", "w", "x", "y", "z">>
UpperCase ==
    <<"A", "B", "C", "D", "E", "F", "G", "H", "I", "J", "K", "L", "M",
      "N", "O", "P", "Q", "R", "S", "T", "U", "V", "W", "X", "Y", "Z">>

ToUpperChar(c) ==
    IF \E k \in 1..26 : LowerCase[k] = c
    THEN UpperCase[CHOOSE k \in 1..26 : LowerCase[k] = c]
    ELSE c
ToLowerChar(c) ==
    IF \E k \in 1..26 : UpperCase[k] = c
    THEN LowerCase[CHOOSE k \in 1..26 : UpperCase[k] = c]
    ELSE c

\* strings.ToUpper, strings.ToLower, strings.Title
ToUpper(t) == [k \in 1..Len(t) |-> ToUpperChar(t[k])]
ToLower(t) == [k \in 1..Len(t) |-> ToLowerChar(t[k])]
Title(t) ==
    [k \in 1..Len(t) |->
        IF k = 1 \/ t[k - 1] \notin Letters \cup Digits \cup {"_"}
        THEN ToUpperChar(t[k]) ELSE t[k]]

ApplyFunc(name, t) ==
    CASE name = <<"u", "p", "p", "e", "r">> -> ToUpper(t)
      [] name = <<"l", "o", "w", "e", "r">> -> ToLower(t)
      [] OTHER -> Title(t)

\* and, or: the first operand that decides, or the last one
RECURSIVE EvalAndOr(_, _, _, _)
EvalAndOr(isAnd, ws, dot, root) ==
    LET r == EvalOperand(Head(ws), dot, root)
    IN  IF ~ r.ok THEN Failed
        ELSE IF Len(ws) = 1 \/ Truth(r.val, root) # isAnd THEN r
        ELSE EvalAndOr(isAnd, Tail(ws), dot, root)

\* one command: a field chain, a string, or a function with its operands
EvalCommand(ws, dot, root) ==
    LET f == ws[1]
        a(k) == EvalOperand(ws[k], dot, root)
    IN  IF IsField(f) \/ IsString(f)
        THEN IF Len(ws) = 1 THEN a(1) ELSE Failed
        ELSE IF f \in funcs
        THEN IF Len(ws) = 2 /\ a(2).ok /\ a(2).val.type = "string"
             THEN Value(Str(ApplyFunc(f, a(2).val.text)))
             ELSE Failed
        ELSE IF f = <<"n", "o", "t">>
        THEN IF Len(ws) = 2 /\ a(2).ok
             THEN Value(Bool(~ Truth(a(2).val, root)))
             ELSE Failed
        ELSE IF f \in {<<"a", "n", "d">>, <<"o", "r">>}
        THEN IF Len(ws) >= 2
             THEN EvalAndOr(f = <<"a", "n", "d">>, Tail(ws), dot, root)
             ELSE Failed
        ELSE IF f \in {<<"e", "q">>, <<"n", "e">>}
        THEN IF /\ Len(ws) = 3 /\ a(2).ok /\ a(3).ok
                /\ \/ {a(2).val.type, a(3).val.type} \subseteq
                          {"string", "HTML"}
                   \/ {a(2).val.type, a(3).val.type} = {"bool"}
             THEN Value(Bool((a(2).val.text = a(3).val.text)
                             = (f = <<"e", "q">>)))
             ELSE Failed
        ELSE Failed

\* the escaper of HTML text: the characters it replaces
EscapeChar(c) ==
    CASE c = "<" -> <<"&", "l", "t", ";">>
      [] c = ">" -> <<"&", "g", "t", ";">>
      [] c = "&" -> <<"&", "a", "m", "p", ";">>
      [] c = "'" -> <<"&", "#", "3", "9", ";">>
      [] c = "\"" -> <<"&", "#", "3", "4", ";">>
      [] c = "+" -> <<"&", "#", "4", "3", ";">>
      [] OTHER -> <<c>>

RECURSIVE Escape(_)
Escape(t) ==
    IF t = << >> THEN << >> ELSE EscapeChar(Head(t)) \o Escape(Tail(t))

\* the text fmt prints for a value
RECURSIVE Entries(_, _)
Sprint(v, root) ==
    CASE v.type = "nil" -> <<"<", "n", "i", "l", ">">>
      [] v.type = "map" ->
            <<"m", "a", "p", "[">> \o Entries(SortedKeys(root), root)
            \o <<"]">>
      [] OTHER -> v.text
Entries(keys, root) ==
    IF keys = << >> THEN << >>
    ELSE Head(keys) \o <<":">> \o Sprint(root[Head(keys)], root)
         \o (IF Len(keys) > 1 THEN <<" ">> ELSE << >>)
         \o Entries(Tail(keys), root)

\* Emit without the escaper
EmitRaw(v, root) ==
    CASE v.type = "nil" -> << >>
      [] OTHER -> Sprint(v, root)

\* what an action in HTML text writes for a value: a value typed
\* template.HTML as it is, no value as nothing, any other value escaped
Emit(v, root) ==
    CASE v.type = "HTML" -> v.text
      [] v.type = "nil" -> << >>
      [] OTHER -> Escape(Sprint(v, root))

Frame(kind, live, on, taken, dot, outer, start, rest) ==
    [kind |-> kind, live |-> live, on |-> on, taken |-> taken, dot |-> dot,
     outer |-> outer, start |-> start, rest |-> rest]

\* the values a range visits
Elements(v, root) ==
    IF v.type = "map"
    THEN [k \in 1..Len(SortedKeys(root)) |-> root[SortedKeys(root)[k]]]
    ELSE << >>

\* the execution of the items from i on: frames holds the open blocks,
\* innermost last, written the text put out so far; an error stops the
\* execution and leaves what was written
RECURSIVE ExecItems(_, _, _, _, _)
ExecItems(items, i, frames, written, root) ==
    IF i > Len(items) THEN [out |-> written, err |-> FALSE]
    ELSE
    LET n == Len(frames)
        on == n = 0 \/ frames[n].on
        dot == IF n = 0 THEN TheMap ELSE frames[n].dot
        ws == Words(items[i].text, 1)
        stop == [out |-> written, err |-> TRUE]
        next(fs) == ExecItems(items, i + 1, fs, written, root)
        again ==
            ExecItems(items, frames[n].start + 1,
                      [frames EXCEPT ![n].dot = Head(frames[n].rest),
                                     ![n].rest = Tail(frames[n].rest)],
                      written, root)
        loops == /\ frames[n].kind = KwRange
                 /\ frames[n].on
                 /\ frames[n].rest # << >>
    IN  IF items[i].kind = "text"
        THEN ExecItems(items, i + 1, frames,
                       IF on THEN written \o items[i].text ELSE written, root)
        ELSE IF ws = <<KwEnd>>
        THEN IF loops THEN again ELSE next(SubSeq(frames, 1, n - 1))
        ELSE IF ws = <<KwElse>>
        THEN IF loops THEN again
             ELSE next([frames EXCEPT
                          ![n].on = frames[n].live /\ ~ frames[n].taken,
                          ![n].taken = TRUE,
                          ![n].dot = frames[n].outer])
        ELSE IF ws[1] = KwElse
        THEN IF ~ (frames[n].live /\ ~ frames[n].taken)
             THEN next([frames EXCEPT ![n].on = FALSE])
             ELSE LET r == EvalCommand(SubSeq(ws, 3, Len(ws)),
                                       frames[n].outer, root)
                      c == Truth(r.val, root)
                  IN  IF ~ r.ok THEN stop
                      ELSE next([frames EXCEPT
                                   ![n].on = c,
                                   ![n].taken = c,
                                   ![n].dot = IF c /\ ws[2] = KwWith
                                              THEN r.val
                                              ELSE frames[n].outer])
        ELSE IF ws[1] \in Openers
        THEN IF ~ on
             THEN next(Append(frames, Frame(ws[1], FALSE, FALSE, TRUE, dot,
                                            dot, i, << >>)))
             ELSE LET r == EvalCommand(Tail(ws), dot, root)
                      c == Truth(r.val, root)
                      es == Elements(r.val, root)
                  IN  IF ~ r.ok THEN stop
                      ELSE IF ws[1] # KwRange
                      THEN next(Append(frames,
                              Frame(ws[1], TRUE, c, c,
                                    IF c /\ ws[1] = KwWith THEN r.val
                                    ELSE dot,
                                    dot, i, << >>)))
                      ELSE IF r.val.type \notin {"map", "nil"} THEN stop
                      ELSE IF es = << >>
                      THEN next(Append(frames,
                              Frame(KwRange, TRUE, FALSE, FALSE, dot, dot,
                                    i, << >>)))
                      ELSE next(Append(frames,
                              Frame(KwRange, TRUE, TRUE, TRUE, Head(es),
                                    dot, i, Tail(es))))
        ELSE IF ~ on THEN next(frames)
        ELSE LET r == EvalCommand(ws, dot, root)
             IN  IF ~ r.ok THEN stop
                 ELSE ExecItems(items, i + 1, frames,
                                written \o Emit(r.val, root), root)

\* tmpl.Execute over a writer that keeps what was written
Execute(items, root) == ExecItems(items, 1, << >>, << >>, root)

\* ---- Engine.Render, Engine.RenderString and the handlers that render ----

\* os.ReadFile(fullPath): the content of the file when it is there
ReadFile(present, content) ==
    IF present THEN [err |-> FALSE, content |-> content]
    ELSE [err |-> TRUE, content |-> << >>]

NoError == "none"

\* Render, once the template is parsed: sets the content type and executes
\* onto w. Execute writes to w as it goes, so what precedes an execution
\* error has been written when Render returns the error
Executed(w, x) ==
    [w |-> IF x.out # << >> THEN Write(w, Chunk(x.out, "")) ELSE w,
     err |-> IF x.err THEN "execute" ELSE NoError]

RenderTemplate(w, t, root) ==
    IF t.err THEN [w |-> w, err |-> "parse"]
    ELSE Executed(SetHeader(w, "Content-Type", "text/html; charset=utf-8"),
                  Execute(t.items, root))

\* Render, once the file is read: preprocesses and parses
RenderFile(w, file, root) ==
    IF file.err THEN [w |-> w, err |-> "read"]
    ELSE RenderTemplate(w, Parse(preprocess(file.content)), root)

Render(w, present, content, root) ==
    RenderFile(w, ReadFile(present, content), root)

\* RenderString: the same into a buffer, which an error discards
ExecutedString(x) ==
    IF x.err THEN [out |-> << >>, err |-> "execute"]
    ELSE [out |-> x.out, err |-> NoError]

RenderStringTemplate(t, root) ==
    IF t.err THEN [out |-> << >>, err |-> "parse"]
    ELSE ExecutedString(Execute(t.items, root))

RenderStringFile(file, root) ==
    IF file.err THEN [out |-> << >>, err |-> "read"]
    ELSE RenderStringTemplate(Parse(preprocess(file.content)), root)

RenderString(present, content, root) ==
    RenderStringFile(ReadFile(present, content), root)

\* http.Error(w, text, code)
HTTPError(w, text, code) ==
    Write(WriteHeader(SetHeader(SetHeader(w, "Content-Type",
                                          "text/plain; charset=utf-8"),
                                "X-Content-Type-Options", "nosniff"),
                      code),
          Chunk(text, ""))

WelcomeTitle ==
    <<"W", "e", "l", "c", "o", "m", "e", " ", "t", "o", " ", "g", "o", "B",
      "a", "s", "t", "i", "o", "n">>

\* what a handler returns with: the writer as Render left it, Render's
\* error, and the writer the client is answered from
Handled(op, r, w) == [op |-> op, err |-> r.err, rw |-> r.w, w |-> w]

\* the end of both handlers: the answer is 500 when Render failed
AnswerRendered(op, r) ==
    Handled(op, r,
            IF r.err # NoError
            THEN HTTPError(r.w, "Failed to render template", 500)
            ELSE r.w)

\* handleHomePage: renders "home" with the title of the page
handleHomePage(w, present, content) ==
    AnswerRendered("home",
                   Render(w, present, content,
                          FieldTitle :> Str(WelcomeTitle)))

\* renderLoginError: sets the cookie of a new CSRF token when CSRF is
\* enabled, writes the status 400, and renders "auth/login" with the error
\* message and the token
renderLoginError(w, present, content, enableCSRF, token, errorMsg) ==
    AnswerRendered("login",
        Render(WriteHeader(IF enableCSRF
                           THEN SetHeader(w, "Set-Cookie", "csrf_token")
                           ELSE w, 400),
               present, content,
               (FieldError :> Str(errorMsg))
               @@ (FieldCSRFToken :> Str(IF enableCSRF THEN token
                                         ELSE << >>))))

NothingRendered == << >>

NoViews ==
    /\ tmpl = << >>
    /\ data = << >>
    /\ rendered = NothingRendered

-----------------------------------------------------------------------------
(* Rate limiter: the RateLimit middleware, rateLimiter.Allow and cleanup *)

\* rateLimiter.window, in minutes
Window == 1
\* period of the cleanup ticker, in minutes
CleanupEvery == 5
\* cleanup deletes a visitor whose last request is older than this, in minutes
StaleAfter == 10

Clients == {"c1", "c2"}
Goroutines == {"g1", "g2"}
Nobody == "none"
Cleaner == "cleanup"

\* visitor objects are numbered in the order they are allocated
Allocated == DOMAIN requests

\* the loop of Allow that looks for the first request after the cutoff:
\* valid stays 0 when there is none
ValidIndex(reqs, cutoff) ==
    IF \E i \in 1..Len(reqs) : reqs[i] > cutoff
    THEN (CHOOSE i \in 1..Len(reqs) :
              reqs[i] > cutoff /\ \A j \in 1..(i - 1) : ~(reqs[j] > cutoff)) - 1
    ELSE 0

\* v.requests = v.requests[valid:]
Prune(reqs, cutoff) == SubSeq(reqs, ValidIndex(reqs, cutoff) + 1, Len(reqs))

\* history: how many accepted requests of the client lie in the window at t
InWindow(ip, t) ==
    Cardinality({i \in 1..Len(accepted[ip]) : accepted[ip][i] > t - Window})

\* the outcome of a request: the status written, whether next was called,
\* and for the history: the client, the time, whether Allow was consulted,
\* how many accepted requests of the client lay in the window, and how many
\* requests had been started
NoOutcome ==
    [ip |-> Nobody, at |-> 0, allowed |-> FALSE, status |-> 0, next |-> FALSE,
     inWindow |-> 0, limited |-> FALSE, seqno |-> 0]

\* the handler RateLimit returns is called: cfg.Enabled false calls next
\* at once, otherwise Allow(getIP(r)) starts
StartRequest(g, ip) ==
    /\ pc[g] = "idle"
    /\ started < MaxRequests
    /\ started' = started + 1
    /\ IF enabled
       THEN /\ pc' = [pc EXCEPT ![g] = "rlock"]
            /\ loc' = [loc EXCEPT ![g] = [ip |-> ip, v |-> 0]]
            /\ out' = out
       ELSE /\ out' = [out EXCEPT ![g] =
                         [ip |-> ip, at |-> now, allowed |-> TRUE,
                          status |-> 200, next |-> TRUE,
                          inWindow |-> 0, limited |-> FALSE,
                          seqno |-> started + 1]]
            /\ UNCHANGED <<pc, loc>>
    /\ UNCHANGED <<enabled, limit, now, visitors, requests, rlmu, vmu,
                   accepted, cl>>
    /\ UNCHANGED <<rvars, mvars, tvars, bvars>>

\* rl.mu.RLock()
AllowRLock(g) ==
    /\ pc[g] = "rlock"
    /\ rlmu.w = Nobody
    /\ rlmu' = [rlmu EXCEPT !.r = @ \cup {g}]
    /\ pc' = [pc EXCEPT ![g] = "lookup"]
    /\ UNCHANGED <<enabled, limit, now, visitors, requests, vmu, loc, out,
                   accepted, started, cl>>
    /\ UNCHANGED <<rvars, mvars, tvars, bvars>>

\* v, exists := rl.visitors[ip]; rl.mu.RUnlock();
\* if !exists { v = &visitor{requests: make([]time.Time, 0)} ... }
AllowLookup(g) ==
    /\ pc[g] = "lookup"
    /\ rlmu' = [rlmu EXCEPT !.r = @ \ {g}]
    /\ IF visitors[loc[g].ip] # 0
       THEN /\ loc' = [loc EXCEPT ![g].v = visitors[loc[g].ip]]
            /\ pc' = [pc EXCEPT ![g] = "vlock"]
            /\ UNCHANGED <<requests, vmu>>
       ELSE LET v == Cardinality(Allocated) + 1
            IN  /\ requests' = Append(requests, << >>)
                /\ vmu' = Append(vmu, Nobody)
                /\ loc' = [loc EXCEPT ![g].v = v]
                /\ pc' = [pc EXCEPT ![g] = "wlock"]
    /\ UNCHANGED <<enabled, limit, now, visitors, out, accepted, started, cl>>
    /\ UNCHANGED <<rvars, mvars, tvars, bvars>>

\* rl.mu.Lock()
AllowLock(g) ==
    /\ pc[g] = "wlock"
    /\ rlmu.w = Nobody /\ rlmu.r = {}
    /\ rlmu' = [rlmu EXCEPT !.w = g]
    /\ pc' = [pc EXCEPT ![g] = "store"]
    /\ UNCHANGED <<enabled, limit, now, visitors, requests, vmu, loc, out,
                   accepted, started, cl>>
    /\ UNCHANGED <<rvars, mvars, tvars, bvars>>

\* rl.visitors[ip] = v; rl.mu.Unlock()
AllowStore(g) ==
    /\ pc[g] = "store"
    /\ visitors' = [visitors EXCEPT ![loc[g].ip] = loc[g].v]
    /\ rlmu' = [rlmu EXCEPT !.w = Nobody]
    /\ pc' = [pc EXCEPT ![g] = "vlock"]
    /\ UNCHANGED <<enabled, limit, now, requests, vmu, loc, out, accepted,
                   started, cl>>
    /\ UNCHANGED <<rvars, mvars, tvars, bvars>>

\* v.mu.Lock()
AllowVLock(g) ==
    /\ pc[g] = "vlock"
    /\ vmu[loc[g].v] = Nobody
    /\ vmu' = [vmu EXCEPT ![loc[g].v] = g]
    /\ pc' = [pc EXCEPT ![g] = "check"]
    /\ UNCHANGED <<enabled, limit, now, visitors, requests, rlmu, loc, out,
                   accepted, started, cl>>
    /\ UNCHANGED <<rvars, mvars, tvars, bvars>>

\* (mutant) an Allow that needs the limiter-wide lock for its check, while it
\* holds v.mu
AllowCheckUnderLimiterLock(g) ==
    /\ pc[g] = "check"
    /\ rlmu.w = Nobody
    /\ requests' = [requests EXCEPT ![loc[g].v] =
                       IF ~(Len(Prune(@, now - Window)) >= limit)
                       THEN Append(Prune(@, now - Window), now)
                       ELSE Prune(@, now - Window)]
    /\ out' = [out EXCEPT ![g] =
                  [ip |-> loc[g].ip, at |-> now,
                   allowed |-> ~(Len(Prune(requests[loc[g].v], now - Window)) >= limit),
                   status |-> IF ~(Len(Prune(requests[loc[g].v], now - Window)) >= limit)
                              THEN 200 ELSE 429,
                   next |-> ~(Len(Prune(requests[loc[g].v], now - Window)) >= limit),
                   inWindow |-> InWindow(loc[g].ip, now), limited |-> TRUE,
                   seqno |-> started]]
    /\ accepted' = IF ~(Len(Prune(requests[loc[g].v], now - Window)) >= limit)
                   THEN [accepted EXCEPT ![loc[g].ip] = Append(@, now)]
                   ELSE accepted
    /\ vmu' = [vmu EXCEPT ![loc[g].v] = Nobody]
    /\ pc' = [pc EXCEPT ![g] = "idle"]
    /\ UNCHANGED <<enabled, limit, now, visitors, rlmu, loc, started, cl>>
    /\ UNCHANGED <<rvars, mvars, tvars, bvars>>

\* the rest of Allow under v.mu (prune, check the limit, append), the deferred
\* v.mu.Unlock(), and the rest of the middleware: 429 or next(w, r, params)
AllowCheck(g) ==
    /\ pc[g] = "check"
    /\ LET v      == loc[g].v
           ip     == loc[g].ip
           cutoff == now - Window
           kept   == Prune(requests[v], cutoff)
           ok     == ~(Len(kept) >= limit)
       IN  /\ requests' = [requests EXCEPT ![v] =
                              IF ok THEN Append(kept, now) ELSE kept]
           /\ out' = [out EXCEPT ![g] =
                         [ip |-> ip, at |-> now, allowed |-> ok,
                          status |-> IF ok THEN 200 ELSE 429, next |-> ok,
                          inWindow |-> InWindow(ip, now), limited |-> TRUE,
                          seqno |-> started]]
           /\ accepted' = IF ok
                          THEN [accepted EXCEPT ![ip] = Append(@, now)]
                          ELSE accepted
           /\ vmu' = [vmu EXCEPT ![v] = Nobody]
    /\ pc' = [pc EXCEPT ![g] = "idle"]
    /\ UNCHANGED <<enabled, limit, now, visitors, rlmu, loc, started, cl>>
    /\ UNCHANGED <<rvars, mvars, tvars, bvars>>

\* time passes, up to minute T
Tick(T) ==
    /\ now < T
    /\ now' = now + 1
    /\ UNCHANGED <<enabled, limit, visitors, requests, rlmu, vmu, pc, loc, out,
                   accepted, started, cl>>
    /\ UNCHANGED <<rvars, mvars, tvars, bvars>>

\* cleanup: for range ticker.C
CleanupWake ==
    /\ cl.pc = "sleep"
    /\ now >= cl.tick
    /\ cl' = [cl EXCEPT !.pc = "lock", !.tick = @ + CleanupEvery]
    /\ UNCHANGED <<enabled, limit, now, visitors, requests, rlmu, vmu, pc, loc,
                   out, accepted, started>>
    /\ UNCHANGED <<rvars, mvars, tvars, bvars>>

\* cleanup: rl.mu.Lock(); for ip, v := range rl.visitors
CleanupLock ==
    /\ cl.pc = "lock"
    /\ rlmu.w = Nobody /\ rlmu.r = {}
    /\ rlmu' = [rlmu EXCEPT !.w = Cleaner]
    /\ cl' = [cl EXCEPT !.pc = "range",
                        !.todo = {ip \in Clients : visitors[ip] # 0}]
    /\ UNCHANGED <<enabled, limit, now, visitors, requests, vmu, pc, loc, out,
                   accepted, started>>
    /\ UNCHANGED <<rvars, mvars, tvars, bvars>>

\* cleanup, one iteration: v.mu.Lock(); delete the visitor that has no
\* request or whose last request is stale; v.mu.Unlock()
CleanupVisit(ip) ==
    /\ cl.pc = "range"
    /\ ip \in cl.todo
    /\ LET v    == visitors[ip]
           reqs == requests[v]
       IN  /\ vmu[v] = Nobody
           /\ visitors' =
                 IF Len(reqs) = 0 \/ now - reqs[Len(reqs)] > StaleAfter
                 THEN [visitors EXCEPT ![ip] = 0]
                 ELSE visitors
    /\ cl' = [cl EXCEPT !.todo = @ \ {ip}]
    /\ UNCHANGED <<enabled, limit, now, requests, rlmu, vmu, pc, loc, out,
                   accepted, started>>
    /\ UNCHANGED <<rvars, mvars, tvars, bvars>>

\* cleanup: the range is over; rl.mu.Unlock()
CleanupUnlock ==
    /\ cl.pc = "range"
    /\ cl.todo = {}
    /\ rlmu' = [rlmu EXCEPT !.w = Nobody]
    /\ cl' = [cl EXCEPT !.pc = "sleep"]
    /\ UNCHANGED <<enabled, limit, now, visitors, requests, vmu, pc, loc, out,
                   accepted, started>>
    /\ UNCHANGED <<rvars, mvars, tvars, bvars>>

\* no RateLimit middleware has been made
NoLimiter ==
    /\ enabled = FALSE
    /\ limit = 0
    /\ now = 0
    /\ visitors = [ip \in Clients |-> 0]
    /\ requests = << >>
    /\ rlmu = [w |-> Nobody, r |-> {}]
    /\ vmu = << >>
    /\ pc = [g \in Goroutines |-> "idle"]
    /\ loc = [g \in Goroutines |-> [ip |-> Nobody, v |-> 0]]
    /\ out = [g \in Goroutines |-> NoOutcome]
    /\ accepted = [ip \in Clients |-> << >>]
    /\ started = 0
    /\ cl = [pc |-> "sleep", todo |-> {}, tick |-> CleanupEvery]

\* RateLimit(cfg): newRateLimiter(cfg.RequestsPerMinute), go rl.cleanup()
InitLimiter ==
    /\ enabled \in BOOLEAN
    /\ limit \in 1..MaxLimit
    /\ now = 0
    /\ visitors = [ip \in Clients |-> 0]
    /\ requests = << >>
    /\ rlmu = [w |-> Nobody, r |-> {}]
    /\ vmu = << >>
    /\ pc = [g \in Goroutines |-> "idle"]
    /\ loc = [g \in Goroutines |-> [ip |-> Nobody, v |-> 0]]
    /\ out = [g \in Goroutines |-> NoOutcome]
    /\ accepted = [ip \in Clients |-> << >>]
    /\ started = 0
    /\ cl = [pc |-> "sleep", todo |-> {}, tick |-> CleanupEvery]

\* no router is involved
NoRouter ==
    /\ routes = << >>
    /\ middlewares = << >>
    /\ calls = << >>
    /\ req = NoRequest
    /\ resp = NoResponse

\* the steps of the request goroutines G for the clients C, the clock (up to
\* minute T) and the cleanup goroutine
LimiterNext(G, C, T) ==
    \/ \E g \in G, ip \in C : StartRequest(g, ip)
    \/ \E g \in G : AllowRLock(g)
    \/ \E g \in G : AllowLookup(g)
    \/ \E g \in G : AllowLock(g)
    \/ \E g \in G : AllowStore(g)
    \/ \E g \in G : AllowVLock(g)
    \/ \E g \in G : AllowCheck(g)
    \/ Tick(T)
    \/ CleanupWake
    \/ CleanupLock
    \/ \E ip \in Clients : CleanupVisit(ip)
    \/ CleanupUnlock

-----------------------------------------------------------------------------
(* The chat broker (package chat) and the handlers that use it.  The      *)
(* goroutine of Start is the only one that touches the client map, the    *)
(* history and the client channels; mu and histMu are contended by        *)
(* readers only (GetHistory, ActiveClients) and are not part of the state. *)

\* broadcast: make(chan Message, 100)
BroadcastBuffer == 100
\* Messages: make(chan chat.Message, 10)
ClientBuffer == 10
\* broadcastMessage keeps the last 100 messages of a room
HistoryLimit == 100
\* registerClient sends the last 20 messages of the room
JoinHistory == 20

Rooms == {"general", "dev"}
ClientIds == {"k1", "k2"}

\* type Message: the ID tells the messages of a room apart
Message(room, id) == [RoomID |-> room, ID |-> id]

\* a channel of messages: what is buffered, whether it was closed
NewChan == [buf |-> << >>, closed |-> FALSE]

SendOnClosed == "send on closed channel"
CloseOfClosed == "close of closed channel"

\* select { case ch <- msg: case <-time.After(100 * time.Millisecond): }
\* The message goes into the buffer when there is room, and the timer wins
\* when the buffer stays full; a receive that makes room in time is a receive
\* before the send.  A send on a closed channel panics.
TrySend(ch, msg) ==
    IF ch.closed THEN [ch |-> ch, panic |-> TRUE]
    ELSE IF Len(ch.buf) < ClientBuffer
         THEN [ch |-> [ch EXCEPT !.buf = Append(@, msg)], panic |-> FALSE]
         ELSE [ch |-> ch, panic |-> FALSE]

\* for _, msg := range msgs { select { case ch <- msg: ... } }
RECURSIVE SendAll(_, _)
SendAll(ch, msgs) ==
    IF msgs = << >> THEN [ch |-> ch, panic |-> FALSE]
    ELSE [ch |-> SendAll(TrySend(ch, Head(msgs)).ch, Tail(msgs)).ch,
          panic |-> \/ TrySend(ch, Head(msgs)).panic
                    \/ SendAll(TrySend(ch, Head(msgs)).ch, Tail(msgs)).panic]

\* close(ch): closing a closed channel panics
Close(ch) == [ch |-> [ch EXCEPT !.closed = TRUE], panic |-> ch.closed]

\* history[start:] with start := len(history) - 20, at least 0
LastMessages(h) ==
    SubSeq(h, (IF Len(h) - JoinHistory < 0 THEN 0 ELSE Len(h) - JoinHistory) + 1,
           Len(h))

\* the messages in the channels, each with the client it was sent to
Buffered(chans) ==
    UNION {{[to |-> c, room |-> chans[c].buf[i].RoomID] :
               i \in 1..Len(chans[c].buf)} : c \in ClientIds}

\* (mutant) a history that stops growing when it is full: the newest message
\* is dropped
AppendHistoryKeepOldest(h, message) ==
    IF Len(Append(h, message)) > HistoryLimit
    THEN SubSeq(Append(h, message), 1, HistoryLimit)
    ELSE Append(h, message)

\* broadcastMessage, the history: append, then keep only the last 100
AppendHistory(h, message) ==
    IF Len(Append(h, message)) > HistoryLimit
    THEN Tail(Append(h, message))
    ELSE Append(h, message)

\* func (b *Broker) registerClient(client *Client)
registerClient(c) ==
    /\ clients' = clients \cup {c}
    /\ messages' = [messages EXCEPT ![c] =
                       SendAll(@, LastMessages(history[stream[c].RoomID])).ch]
    /\ panics' = IF SendAll(messages[c],
                            LastMessages(history[stream[c].RoomID])).panic
                 THEN panics \cup {SendOnClosed} ELSE panics
    /\ delivered' = delivered \cup Buffered(messages')
    /\ UNCHANGED <<history, handled>>

\* func (b *Broker) unregisterClient(client *Client)
unregisterClient(c) ==
    /\ IF c \in clients
       THEN /\ clients' = clients \ {c}
            /\ messages' = [messages EXCEPT ![c] = Close(@).ch]
            /\ panics' = IF Close(messages[c]).panic
                         THEN panics \cup {CloseOfClosed} ELSE panics
       ELSE UNCHANGED <<clients, messages, panics>>
    /\ UNCHANGED <<history, handled, delivered>>

\* (mutant) a broadcast without the test of the room
ReceiversAnyRoom(message) == clients

\* the clients broadcastMessage sends the message to
Receivers(message) == {c \in clients : stream[c].RoomID = message.RoomID}

\* func (b *Broker) broadcastMessage(message Message)
broadcastMessage(message) ==
    /\ history' = [history EXCEPT ![message.RoomID] = AppendHistory(@, message)]
    /\ handled' = [handled EXCEPT ![message.RoomID] = @ + 1]
    /\ messages' = [c \in ClientIds |->
                       IF c \in Receivers(message)
                       THEN TrySend(messages[c], message).ch
                       ELSE messages[c]]
    /\ panics' = IF \E c \in Receivers(message) :
                        TrySend(messages[c], message).panic
                 THEN panics \cup {SendOnClosed} ELSE panics
    /\ delivered' = delivered \cup Buffered(messages')
    /\ UNCHANGED clients

\* func (b *Broker) shutdown()
shutdown ==
    /\ messages' = [c \in ClientIds |->
                       IF c \in clients THEN Close(messages[c]).ch
                       ELSE messages[c]]
    /\ panics' = IF \E c \in clients : Close(messages[c]).panic
                 THEN panics \cup {CloseOfClosed} ELSE panics
    /\ clients' = {}
    /\ UNCHANGED <<history, handled, delivered>>

\* handleChatStream starts: the room of the request, a new client with a new
\* channel; Register is its next step
StartStream(c, room) ==
    /\ stream[c].pc = "idle"
    /\ stream' = [stream EXCEPT ![c] = [pc |-> "register", RoomID |-> room]]
    /\ messages' = [messages EXCEPT ![c] = NewChan]
    /\ UNCHANGED <<clients, history, broadcast, done, running, posted, handled,
                   panics, delivered>>
    /\ UNCHANGED <<rvars, lvars, mvars, tvars>>

\* func (b *Broker) Register(client *Client): b.register has no buffer, the
\* send goes through when the loop of Start receives it and then runs
\* registerClient
Register(c) ==
    /\ stream[c].pc = "register"
    /\ running
    /\ registerClient(c)
    /\ stream' = [stream EXCEPT ![c].pc = "loop"]
    /\ UNCHANGED <<broadcast, done, running, posted>>
    /\ UNCHANGED <<rvars, lvars, mvars, tvars>>

\* handleChatStream, case msg, ok := <-client.Messages with ok: the message
\* is written to the response
StreamMessage(c) ==
    /\ stream[c].pc = "loop"
    /\ messages[c].buf # << >>
    /\ messages' = [messages EXCEPT ![c].buf = Tail(@)]
    /\ UNCHANGED <<clients, history, broadcast, done, running, stream, posted,
                   handled, panics, delivered>>
    /\ UNCHANGED <<rvars, lvars, mvars, tvars>>

\* handleChatStream, case msg, ok := <-client.Messages with !ok: the channel
\* is closed and empty; return, the deferred Unregister is next
StreamClosed(c) ==
    /\ stream[c].pc = "loop"
    /\ messages[c].buf = << >> /\ messages[c].closed
    /\ stream' = [stream EXCEPT ![c].pc = "unregister"]
    /\ UNCHANGED <<clients, history, broadcast, done, running, messages,
                   posted, handled, panics, delivered>>
    /\ UNCHANGED <<rvars, lvars, mvars, tvars>>

\* handleChatStream, case <-ctx.Done(): the client went away; return, the
\* deferred Unregister is next
StreamDisconnect(c) ==
    /\ stream[c].pc = "loop"
    /\ stream' = [stream EXCEPT ![c].pc = "unregister"]
    /\ UNCHANGED <<clients, history, broadcast, done, running, messages,
                   posted, handled, panics, delivered>>
    /\ UNCHANGED <<rvars, lvars, mvars, tvars>>

\* func (b *Broker) Unregister(client *Client): b.unregister has no buffer,
\* the send goes through when the loop of Start receives it and then runs
\* unregisterClient; the handler has returned
Unregister(c) ==
    /\ stream[c].pc = "unregister"
    /\ running
    /\ unregisterClient(c)
    /\ stream' = [stream EXCEPT ![c].pc = "returned"]
    /\ UNCHANGED <<broadcast, done, running, posted>>
    /\ UNCHANGED <<rvars, lvars, mvars, tvars>>

\* func (b *Broker) Broadcast(message Message), called by handleSendMessage
\* with a new message for the room: a send into the buffered channel
Broadcast(room) ==
    /\ Len(broadcast) < BroadcastBuffer
    /\ broadcast' = Append(broadcast, Message(room, posted[room] + 1))
    /\ posted' = [posted EXCEPT ![room] = @ + 1]
    /\ UNCHANGED <<clients, history, done, running, stream, messages, handled,
                   panics, delivered>>
    /\ UNCHANGED <<rvars, lvars, mvars, tvars>>

\* Start, case message := <-b.broadcast
StartBroadcast ==
    /\ running
    /\ broadcast # << >>
    /\ broadcastMessage(Head(broadcast))
    /\ broadcast' = Tail(broadcast)
    /\ UNCHANGED <<done, running, stream, posted>>
    /\ UNCHANGED <<rvars, lvars, mvars, tvars>>

\* func (b *Broker) Stop(): b.cancel()
Stop ==
    /\ ~ done
    /\ done' = TRUE
    /\ UNCHANGED <<clients, history, broadcast, running, stream, messages,
                   posted, handled, panics, delivered>>
    /\ UNCHANGED <<rvars, lvars, mvars, tvars>>

\* Start, case <-b.ctx.Done(): shutdown, and the goroutine returns
StartDone ==
    /\ running
    /\ done
    /\ shutdown
    /\ running' = FALSE
    /\ UNCHANGED <<broadcast, done, stream, posted>>
    /\ UNCHANGED <<rvars, lvars, mvars, tvars>>

\* NewBroker
NewBroker ==
    /\ clients = {}
    /\ history = [r \in Rooms |-> << >>]
    /\ broadcast = << >>
    /\ done = FALSE
    /\ stream = [c \in ClientIds |-> [pc |-> "idle", RoomID |-> "general"]]
    /\ messages = [c \in ClientIds |-> NewChan]
    /\ posted = [r \in Rooms |-> 0]
    /\ handled = [r \in Rooms |-> 0]
    /\ panics = {}
    /\ delivered = {}

\* no broker has been started
NoBroker == NewBroker /\ running = FALSE

\* InitChatBroker: NewBroker, Start
InitChatBroker == NewBroker /\ running = TRUE

\* requests of one client arriving one after another
InitLimiterSeq == InitLimiter /\ NoRouter /\ NoStage /\ NoBroker /\ NoViews
NextLimiterSeq == LimiterNext({"g1"}, {"c1"}, MaxTimeSeq)
SpecLimiterSeq == InitLimiterSeq /\ [][NextLimiterSeq]_vars

\* concurrent requests
InitLimiterConc == InitLimiter /\ NoRouter /\ NoStage /\ NoBroker /\ NoViews
NextLimiterConc == LimiterNext(Goroutines, Clients, MaxTime)
SpecLimiterConc == InitLimiterConc /\ [][NextLimiterConc]_vars

-----------------------------------------------------------------------------
(* Inputs *)

Methods == {"GET", "POST"}
HandlerIds == {"h1", "h2"}
MiddlewareIds == {"A", "B"}

\* "/" followed by the segments joined with "/"; no segment gives ""
RECURSIVE Join(_)
Join(segs) ==
    IF segs = << >> THEN << >> ELSE <<Slash>> \o Head(segs) \o Join(Tail(segs))

RECURSIVE SeqsUpTo(_, _)
SeqsUpTo(S, n) ==
    IF n = 0 THEN {<< >>}
    ELSE LET shorter == SeqsUpTo(S, n - 1)
         IN  shorter \cup {Append(s, x) : s \in shorter, x \in S}

\* patterns: literal and parameter segments, with or without a trailing "/"
PatternSegs == {<<"a">>, <<"{", "x", "}">>, <<"{", "y", "}">>}
AllPatterns ==
    LET joined == {Join(s) : s \in SeqsUpTo(PatternSegs, MaxPatternSegs)}
    IN  joined \cup {p \o <<Slash>> : p \in joined}

\* request paths: any segments, empty ones included; a path starts with "/"
PathSegs == {<< >>, <<"a">>}
AllPaths == {Join(s) : s \in SeqsUpTo(PathSegs, MaxPathSegs)} \ {<< >>}

\* the patterns and paths of the dispatch specification
RoutePatterns ==
    { <<"/">>,
      <<"/", "a">>,
      <<"/", "{", "x", "}">>,
      <<"/", "a", "/", "{", "x", "}">>,
      <<"/", "{", "x", "}", "/", "{", "y", "}">>,
      <<"/", "{", "x", "}", "/", "{", "x", "}">> }
RequestPaths ==
    { <<"/">>,
      <<"/", "a">>,
      <<"/", "b">>,
      <<"/", "a", "/">>,
      <<"/", "a", "/", "b">>,
      <<"/", "a", "/", "/", "b">> }

\* the patterns and paths of the general router specification
ChainPatterns == { <<"/", "{", "x", "}">> }
ChainPaths == { <<"/", "a">>, <<"/", "a", "/", "b">> }

-----------------------------------------------------------------------------
(* Specifications *)

\* func New() *Router
Init ==
    /\ routes = << >>
    /\ middlewares = << >>
    /\ calls = << >>
    /\ req = NoRequest
    /\ resp = NoResponse
    /\ NoLimiter /\ NoStage /\ NoBroker /\ NoViews

Next ==
    \/ \E mw \in MiddlewareIds : Use(mw)
    \/ \E m \in Methods, p \in ChainPatterns, h \in HandlerIds : Handle(m, p, h)
    \/ \E m \in Methods, p \in ChainPaths : ServeHTTP(m, p)

Spec == Init /\ [][Next]_vars

\* Registration of routes with many patterns, no middleware
NextDispatch ==
    \/ \E m \in Methods, p \in RoutePatterns, h \in HandlerIds : Handle(m, p, h)
    \/ \E m \in Methods, p \in RequestPaths : ServeHTTP(m, p)

SpecDispatch == Init /\ [][NextDispatch]_vars

\* A router with one route, any pattern, serving any path
InitOne ==
    /\ \E m \in Methods, p \in AllPatterns :
          routes = << [Method |-> m, Pattern |-> p,
                       Handler |-> BaseHandler("h1")] >>
    /\ middlewares = << >>
    /\ calls = << >>
    /\ req = NoRequest
    /\ resp = NoResponse
    /\ NoLimiter /\ NoStage /\ NoBroker /\ NoViews

NextOne == \E m \in Methods, p \in AllPaths : ServeHTTP(m, p)

SpecOne == InitOne /\ [][NextOne]_vars

\* Requests through the middleware stages
MaxClock == 3

StagePaths ==
    { <<"/", "a", "d", "m", "i", "n">>,
      <<"/", "l", "o", "g", "i", "n">>,
      <<"/", "a", "p", "i", "/", "x">> }

StageMethods == {"GET", "OPTIONS", "POST", "DELETE"}
RequestIDs == {"id1", "id2"}
Origins == {"", "https://a", "https://c"}
AllowedOriginLists ==
    {<< >>, <<"https://a">>, <<"*">>, <<"https://b", "https://a">>}
CSRFTokens == {"", "t1", "t2", "forged", "short"}
Roles == {"admin", "editor", "user"}
Secret == "secret"

ClaimsSet == [Sub : {"u1"}, Role : Roles, Exp : 1..MaxClock]

\* GenerateToken(secret, claims)
GenerateToken(secret, claims) ==
    [empty |-> FALSE, nparts |-> 3, key |-> secret, decodes |-> TRUE,
     claims |-> claims]

\* a token that is good until MaxClock
LongLived(role) ==
    GenerateToken(Secret, [Sub |-> "u1", Role |-> role, Exp |-> MaxClock])

JWTs ==
    {GenerateToken(Secret, c) : c \in {c \in ClaimsSet : c.Role # "editor"}}
    \cup {[LongLived("admin") EXCEPT !.key = "other"],
          [LongLived("admin") EXCEPT !.decodes = FALSE],
          [LongLived("admin") EXCEPT !.nparts = 2]}

NoAuthHeader == [words |-> 0, first |-> "", second |-> EmptyToken]
AuthHeaders ==
    {NoAuthHeader}
    \cup {[words |-> 2, first |-> "Bearer", second |-> t] : t \in JWTs}
    \cup {[words |-> 2, first |-> "Basic", second |-> LongLived("admin")],
          [words |-> 1, first |-> "Bearer", second |-> EmptyToken],
          [words |-> 3, first |-> "Bearer", second |-> LongLived("admin")]}
AuthCookies == {<< >>, <<EmptyToken>>} \cup {<<t>> : t \in JWTs}

\* config.SecurityConfig
SecurityConfig(csrf, jwt) ==
    [EnableCSRF |-> csrf, EnableJWT |-> jwt, JWTSecret |-> Secret]

\* a handler that panics, under Recover, with RequestID outside or inside
ServeRecover ==
    \E id \in StageHandlers, fresh \in RequestIDs, m \in StageMethods,
       h \in {"Recover", "RequestID-Recover", "Recover-RequestID"} :
        /\ ServeStage(
               CASE h = "Recover" -> Wrap(RecoverStage, BaseHandler(id))
                 [] h = "RequestID-Recover" ->
                        Wrap(RequestIDStage, Wrap(RecoverStage, BaseHandler(id)))
                 [] h = "Recover-RequestID" ->
                        Wrap(RecoverStage, Wrap(RequestIDStage, BaseHandler(id))),
               [BlankRequest EXCEPT !.method = m, !.freshID = fresh])
        /\ UNCHANGED <<rvars, lvars, tvars, bvars>>

ServeCORS ==
    \E allowedOrigins \in AllowedOriginLists, origin \in Origins,
       m \in StageMethods, id \in {"ok", "boomEarly"} :
        /\ ServeStage(Wrap(CORSStage(allowedOrigins), BaseHandler(id)),
                      [BlankRequest EXCEPT !.method = m, !.origin = origin])
        /\ UNCHANGED <<rvars, lvars, tvars, bvars>>

\* RequireRole(role) around a handler, alone or under JWTAuthMiddleware
ServeRole ==
    \E role \in Roles, jwt \in BOOLEAN, p \in StagePaths,
       cookie \in AuthCookies, underJWT \in BOOLEAN,
       claims \in {<< >>} \cup {<<c>> : c \in ClaimsSet} :
        /\ ServeStage(
               IF underJWT
               THEN Wrap(JWTStage(SecurityConfig(TRUE, jwt)),
                         Wrap(RoleStage(role), BaseHandler("ok")))
               ELSE Wrap(RoleStage(role), BaseHandler("ok")),
               [BlankRequest EXCEPT !.path = IF underJWT THEN p ELSE <<"/">>,
                                    !.authCookie = IF underJWT THEN cookie
                                                   ELSE << >>,
                                    !.clock = MaxClock - 1,
                                    !.ctx.claims = IF underJWT THEN << >>
                                                   ELSE claims])
        /\ UNCHANGED <<rvars, lvars, tvars, bvars>>

ServeCSRF ==
    \E csrf \in BOOLEAN, m \in StageMethods, p \in StagePaths,
       cookie \in {<< >>} \cup {<<t>> : t \in CSRFTokens},
       header \in CSRFTokens, form \in {"", "t1"} :
        /\ ServeStage(Wrap(CSRFStage(SecurityConfig(csrf, TRUE)),
                           BaseHandler("ok")),
                      [BlankRequest EXCEPT !.method = m, !.path = p,
                                           !.csrfCookie = cookie,
                                           !.csrfHeader = header,
                                           !.csrfForm = form])
        /\ UNCHANGED <<rvars, lvars, tvars, bvars>>

ServeJWT ==
    \E jwt \in BOOLEAN, p \in {p \in StagePaths : ~ HasPrefix(p, ApiPrefix)},
       header \in AuthHeaders, cookie \in AuthCookies, clock \in 1..MaxClock :
        /\ ServeStage(Wrap(JWTStage(SecurityConfig(TRUE, jwt)), BaseHandler("ok")),
                      [BlankRequest EXCEPT !.path = p,
                                           !.authHeader = header,
                                           !.authCookie = cookie,
                                           !.clock = clock])
        /\ UNCHANGED <<rvars, lvars, tvars, bvars>>

InitStages == NoRouter /\ NoLimiter /\ NoStage /\ NoBroker /\ NoViews

\* Recover, CORSMiddleware and RequireRole
NextStages ==
    \/ ServeRecover
    \/ ServeCORS
    \/ ServeRole

SpecStages == InitStages /\ [][NextStages]_vars

\* CSRFMiddleware
NextCSRF == ServeCSRF

SpecCSRF == InitStages /\ [][NextCSRF]_vars

\* JWTAuthMiddleware
NextJWT == ServeJWT

SpecJWT == InitStages /\ [][NextJWT]_vars

\* preprocess applied to every short content over the characters of echo
\* expressions: the marker, a character that may start an expression, one
\* that may only continue it, the parentheses and one that is in neither class
MaxEchoLen == 6
EchoAlphabet == {"@", "a", "1", "(", ")", "$"}
EchoContents(n) == SeqsUpTo(EchoAlphabet, n)

Preprocess ==
    /\ rendered' = <<[op |-> "preprocess", out |-> preprocess(tmpl)]>>
    /\ UNCHANGED <<tmpl, data>>
    /\ UNCHANGED <<rvars, lvars, mvars, bvars>>

InitEcho ==
    /\ NoRouter /\ NoLimiter /\ NoStage /\ NoBroker
    /\ tmpl \in EchoContents(MaxEchoLen)
    /\ data = << >>
    /\ rendered = NothingRendered

NextEcho == Preprocess

SpecEcho == InitEcho /\ [][NextEcho]_vars

\* the view engine over templates of a few lines
MaxLines == 3

LineIf ==
    <<"g", "o", ":", ":", " ", "i", "f", " ", ".", "E", "r", "r", "o", "r">>
LineElse == <<"g", "o", ":", ":", " ", "e", "l", "s", "e">>
LineEnd == <<":", ":", "e", "n", "d">>
LineEcho ==
    <<"<", "p", ">", "@", ".", "E", "r", "r", "o", "r", "<", "/", "p", ">">>
LineCall ==
    <<"@", "u", "p", "p", "e", "r", "(", ".", "T", "i", "t", "l", "e", ")">>
LineChain == <<"@", ".", "E", "r", "r", "o", "r", ".", "T", "e", "x", "t">>

Lines == {LineIf, LineElse, LineEnd, LineEcho, LineCall, LineChain}

\* the content of a file of these lines
RECURSIVE Content(_)
Content(ls) ==
    IF ls = << >> THEN << >>
    ELSE IF Len(ls) = 1 THEN ls[1]
    ELSE ls[1] \o <<NL>> \o Content(Tail(ls))

TemplateContents == {Content(ls) : ls \in SeqsUpTo(Lines, MaxLines)}

\* the values of a context: a text with markup as a string and as
\* template.HTML, and the empty string
Markup == <<"<", "b", ">", "&">>
FieldValues == {Str(Markup), HTML(Markup), Str(<< >>)}
Contexts ==
    {(FieldError :> v) @@ (FieldTitle :> Str(<<"h", "i">>)) :
        v \in FieldValues}

RenderToString ==
    /\ rendered' = <<[op |-> "string"] @@ RenderString(TRUE, tmpl, data)>>
    /\ UNCHANGED <<tmpl, data>>
    /\ UNCHANGED <<rvars, lvars, mvars, bvars>>

ServeHomePage ==
    /\ \E present \in BOOLEAN :
          rendered' = <<handleHomePage(NewWriter, present, tmpl)>>
    /\ UNCHANGED <<tmpl, data>>
    /\ UNCHANGED <<rvars, lvars, mvars, bvars>>

ServeLoginError ==
    /\ \E present \in BOOLEAN, enableCSRF \in BOOLEAN :
          rendered' = <<renderLoginError(NewWriter, present, tmpl,
                                         enableCSRF, <<"t", "1">>, Markup)>>
    /\ UNCHANGED <<tmpl, data>>
    /\ UNCHANGED <<rvars, lvars, mvars, bvars>>

InitRender ==
    /\ NoRouter /\ NoLimiter /\ NoStage /\ NoBroker
    /\ tmpl \in TemplateContents
    /\ data \in Contexts
    /\ rendered = NothingRendered

NextRender == RenderToString \/ ServeHomePage \/ ServeLoginError

SpecRender == InitRender /\ [][NextRender]_vars

\* preprocess applied to contents of a few lines with the logic markers at
\* the start, inside and alone on a line
MaxLogicLines == 3

LogicIndented ==
    <<" ", " ", "g", "o", ":", ":", " ", "i", "f", " ", ".", "A", " ", " ">>
LogicBare == <<"g", "o", ":", ":">>
LogicEndPadded == <<" ", ":", ":", "e", "n", "d", " ">>
LogicText == <<"<", "p", ">", "@", ".", "A", "<", "/", "p", ">">>
LogicInside == <<"x", " ", "g", "o", ":", ":", " ", "y">>
LogicEndMore == <<":", ":", "e", "n", "d", " ", "x">>

LogicLines ==
    {LineIf, LineEnd, LogicIndented, LogicBare, LogicEndPadded, LogicText,
     LogicInside, LogicEndMore}

LogicContents(n) == {Content(ls) : ls \in SeqsUpTo(LogicLines, n)}

InitLogic ==
    /\ NoRouter /\ NoLimiter /\ NoStage /\ NoBroker
    /\ tmpl \in LogicContents(MaxLogicLines)
    /\ data = << >>
    /\ rendered = NothingRendered

NextLogic == Preprocess

SpecLogic == InitLogic /\ [][NextLogic]_vars

\* preprocess applied to contents of a few bracket tags, texts and echoes
MaxPieces == 3

TagEcho == <<"<", "?", "=", " ", ".", "N", "a", "m", "e", " ", "?", ">">>
TagIf ==
    <<"<", "?", " ", "i", "f", " ", ".", "E", "r", "r", "o", "r", " ", "?",
      ">">>
TagRange ==
    <<"<", "?", " ", "r", "a", "n", "g", "e", " ", ".", "I", "t", "e", "m",
      "s", " ", "?", ">">>
TagElse == <<"<", "?", " ", "e", "l", "s", "e", " ", "?", ">">>
TagEnd == <<"<", "?", " ", "e", "n", "d", " ", "?", ">">>
PlainText == <<"E", "r", "r", "o", "r">>
PlainEcho == <<"@", ".", "N", "a", "m", "e">>

Pieces == {TagEcho, TagIf, TagRange, TagElse, TagEnd, PlainText, PlainEcho}

RECURSIVE Concat(_)
Concat(ps) == IF ps = << >> THEN << >> ELSE Head(ps) \o Concat(Tail(ps))

LegacyContents(n) == {Concat(ps) : ps \in SeqsUpTo(Pieces, n)}

InitLegacy ==
    /\ NoRouter /\ NoLimiter /\ NoStage /\ NoBroker
    /\ tmpl \in LegacyContents(MaxPieces)
    /\ data = << >>
    /\ rendered = NothingRendered

NextLegacy == Preprocess

SpecLegacy == InitLegacy /\ [][NextLegacy]_vars

-----------------------------------------------------------------------------
(* Properties of the router *)

Served == req.method # "none"

\* position in calls of the r-th Handle call
HandleCallIndex(r) ==
    CHOOSE k \in 1..Len(calls) :
        /\ calls[k].op = "Handle"
        /\ Cardinality({j \in 1..k : calls[j].op = "Handle"}) = r

\* the middlewares given to the Use calls among the first k calls, in order
RECURSIVE UsesAmong(_)
UsesAmong(k) ==
    IF k = 0 THEN << >>
    ELSE IF calls[k].op = "Use" THEN Append(UsesAmong(k - 1), calls[k].mw)
         ELSE UsesAmong(k - 1)

\* the middlewares a handler value is wrapped in, outermost first
RECURSIVE ChainOf(_)
ChainOf(h) == IF IsBase(h) THEN << >> ELSE <<h.mw>> \o ChainOf(h.next)

RECURSIVE BaseOf(_)
BaseOf(h) == IF IsBase(h) THEN h.base ELSE BaseOf(h.next)

\* C1. Onion order: a request dispatched to route R, registered after the
\* middlewares U[1], ..., U[n] (in that order), runs pre U[1], ..., pre U[n],
\* then R's handler, then post U[n], ..., post U[1]: a middleware registered
\* earlier runs earlier on the way in and later on the way out.
C1_OnionOrder ==
    (Served /\ resp.route # 0) =>
        LET k == HandleCallIndex(resp.route)
            U == UsesAmong(k)
            n == Len(U)
            t == resp.trace
        IN  /\ Len(t) = 2 * n + 1
            /\ \A i \in 1..n : t[i].ev = "pre" /\ t[i].id = U[i]
            /\ t[n + 1].ev = "handler" /\ t[n + 1].id = calls[k].h
            /\ \A i \in 1..n :
                  t[n + 1 + i].ev = "post" /\ t[n + 1 + i].id = U[n + 1 - i]

\* a request went through A then B (registered in that order) to a handler
C1_Witness ==
    /\ Served /\ resp.route # 0
    /\ Len(resp.trace) = 5
    /\ resp.trace[1] = [ev |-> "pre", id |-> "A"]
    /\ resp.trace[2] = [ev |-> "pre", id |-> "B"]
    /\ resp.trace[3].ev = "handler"
    /\ resp.trace[4] = [ev |-> "post", id |-> "B"]
    /\ resp.trace[5] = [ev |-> "post", id |-> "A"]

\* C2. Use is not retroactive: every step leaves the handler of every
\* registered route as it is, and a step that registers a route stores a
\* handler that wraps exactly the middlewares of the Use calls made before it,
\* around the handler given to Handle.
C2_UseNotRetroactive ==
    [][ /\ Len(routes') >= Len(routes)
        /\ \A r \in 1..Len(routes) : routes'[r] = routes[r]
        /\ Len(routes') > Len(routes) =>
              /\ Len(routes') = Len(routes) + 1
              /\ ChainOf(routes'[Len(routes')].Handler) = UsesAmong(Len(calls))
              /\ BaseOf(routes'[Len(routes')].Handler) = calls'[Len(calls')].h
      ]_vars

\* a route registered before a Use and a route registered after it
C2_Witness ==
    /\ Len(routes) = 2
    /\ ChainOf(routes[1].Handler) = <<"A">>
    /\ ChainOf(routes[2].Handler) = <<"A", "B">>
    /\ middlewares = <<"A", "B">>

\* the routes, among those registered when the request was served, that have
\* the request's method and a pattern that matches its path
Matching ==
    {i \in 1..resp.nroutes :
        routes[i].Method = req.method /\ match(routes[i].Pattern, req.path).ok}

HandlerEvents == {i \in 1..Len(resp.trace) : resp.trace[i].ev = "handler"}

\* C3. First match wins: when one or more registered routes have the request's
\* method and a pattern that matches the path, ServeHTTP calls the handler of
\* the one registered earliest, and of no other.
C3_FirstMatchWins ==
    (Served /\ Matching # {}) =>
        /\ resp.route \in Matching
        /\ \A i \in Matching : resp.route <= i
        /\ \A e \in HandlerEvents :
              resp.trace[e].id = BaseOf(routes[resp.route].Handler)
        /\ Cardinality(HandlerEvents) = 1

\* two routes with different handlers match and the first one was called
C3_Witness ==
    /\ Served /\ Cardinality(Matching) = 2
    /\ routes[1].Pattern # routes[2].Pattern
    /\ BaseOf(routes[1].Handler) # BaseOf(routes[2].Handler)
    /\ resp.route = 1

\* C6. NotFound is exactly the no-match case: ServeHTTP answers 404 if and
\* only if no registered route has the request's method and a pattern that
\* matches the path; on a 404 no handler is called, and a route that is called
\* has the request's method.
C6_NotFoundIffNoMatch ==
    Served =>
        /\ (resp.status = 404) <=> (Matching = {})
        /\ resp.status = 404 => (resp.route = 0 /\ resp.trace = << >>)
        /\ resp.route # 0 => routes[resp.route].Method = req.method

\* a 404 although a route's pattern matches the path: its method differs
C6_Witness ==
    /\ Served /\ resp.status = 404
    /\ \E i \in 1..resp.nroutes :
          /\ match(routes[i].Pattern, req.path).ok
          /\ routes[i].Method # req.method

-----------------------------------------------------------------------------
(* Properties of match *)

\* The segments of a pattern or path: what lies between its slashes once the
\* leading and trailing ones are gone; "/" and "" have no segment.
SegmentsOf(s) == IF Trim(s) = << >> THEN << >> ELSE Split(Trim(s))

\* pattern and path have the same number of segments and every literal
\* segment of the pattern equals the path's segment at the same position
Fits(pattern, path) ==
    LET P == SegmentsOf(pattern)
        Q == SegmentsOf(path)
    IN  /\ Len(P) = Len(Q)
        /\ \A k \in 1..Len(P) : IsParam(P[k]) \/ P[k] = Q[k]

ParamPositions(pattern) ==
    {k \in 1..Len(SegmentsOf(pattern)) : IsParam(SegmentsOf(pattern)[k])}

ParamNames(pattern) ==
    {ParamName(SegmentsOf(pattern)[k]) : k \in ParamPositions(pattern)}

\* the routes the claim is about: same method, fitting pattern, and no
\* earlier route matches
FitCandidates ==
    {i \in 1..resp.nroutes :
        /\ routes[i].Method = req.method
        /\ Fits(routes[i].Pattern, req.path)
        /\ \A j \in 1..(i - 1) : j \notin Matching}

\* C4 as stated. Parameter binding: the request reaches the handler of the
\* fitting route with a params map whose keys are exactly the pattern's
\* parameter names, each {name} segment bound to the path segment at the
\* same position.
C4_BindsEachPosition ==
    Served =>
        \A i \in FitCandidates :
            LET P == SegmentsOf(routes[i].Pattern)
                Q == SegmentsOf(req.path)
            IN  /\ resp.route = i
                /\ DOMAIN resp.params = ParamNames(routes[i].Pattern)
                /\ \A k \in ParamPositions(routes[i].Pattern) :
                      resp.params[ParamName(P[k])] = Q[k]
                /\ resp.trace[Len(resp.trace)].params = resp.params

\* C4 as amended. The same, with each name bound to the path segment at the
\* last position where the pattern carries that name (the position of the
\* {name} segment when the pattern's names are distinct).
C4_BindsLastPosition ==
    Served =>
        \A i \in FitCandidates :
            LET P == SegmentsOf(routes[i].Pattern)
                Q == SegmentsOf(req.path)
                Last(name) ==
                    CHOOSE k \in ParamPositions(routes[i].Pattern) :
                        /\ ParamName(P[k]) = name
                        /\ \A l \in ParamPositions(routes[i].Pattern) :
                              ParamName(P[l]) = name => l <= k
            IN  /\ resp.route = i
                /\ DOMAIN resp.params = ParamNames(routes[i].Pattern)
                /\ \A name \in ParamNames(routes[i].Pattern) :
                      resp.params[name] = Q[Last(name)]
                /\ resp.trace[Len(resp.trace)].params = resp.params

\* a request matched a pattern that uses one parameter name twice
C4_Witness ==
    /\ Served /\ resp.route # 0 /\ resp.route \in FitCandidates
    /\ Cardinality(ParamPositions(routes[resp.route].Pattern)) = 2
    /\ Cardinality(ParamNames(routes[resp.route].Pattern)) = 1
    /\ resp.params = [n \in {<<"x">>} |-> <<"b">>]

\* C5 as stated. A pattern and a path with different numbers of segments
\* never match: the request is not given to the route.
C5_SegmentCountMismatch ==
    (Served /\ resp.nroutes = 1 /\ routes[1].Method = req.method) =>
        (Len(SegmentsOf(routes[1].Pattern)) # Len(SegmentsOf(req.path))
            => resp.route = 0)

\* s without one trailing "/" (and without its leading slashes)
OneSlashOff(s) == TrimLeft(TrimSuffix(s))

\* s without any of its trailing slashes
RECURSIVE NoTrailingSlash(_)
NoTrailingSlash(s) ==
    IF Len(s) > 0 /\ s[Len(s)] = Slash
    THEN NoTrailingSlash(SubSeq(s, 1, Len(s) - 1)) ELSE s

-----------------------------------------------------------------------------
(* Properties of the rate limiter *)

\* C8 as stated. Rate-limit recovery: a request of a client that has fewer
\* than N accepted requests in the trailing window (all of them once the
\* window has elapsed since its earlier requests) is accepted.
C8_Recovery ==
    \A g \in Goroutines :
        (out[g].limited /\ out[g].inWindow < limit) =>
            (out[g].allowed /\ out[g].next)

\* C9 as stated. Rate-limit ceiling for requests arriving one after another
\* from one client: the first N requests are accepted, and a request made
\* while N accepted requests lie in the trailing window is answered 429
\* without calling the wrapped handler.
C9_Ceiling ==
    \A g \in Goroutines :
        out[g].limited =>
            /\ out[g].seqno <= limit => (out[g].allowed /\ out[g].next)
            /\ out[g].inWindow >= limit =>
                  (~out[g].allowed /\ out[g].status = 429 /\ ~out[g].next)

\* C10 as stated. Under any interleaving of Allow calls the accepted requests
\* of a client are all counted in one visitor, so that no more than N requests
\* of a client are accepted within one window.
C10_OneCounterPerClient ==
    \A ip \in Clients :
        \A t \in 0..now :
            Cardinality({i \in 1..Len(accepted[ip]) :
                            /\ accepted[ip][i] > t - Window
                            /\ accepted[ip][i] <= t}) <= limit

-----------------------------------------------------------------------------
(* Properties of the middleware stages *)

\* the request went through a chain whose outermost stage is of this kind
IsStage(kind) == ~ IsBase(stage) /\ stage.mw.kind = kind

\* the chain has a Recover stage, with or without RequestID around it
UnderRecover ==
    \/ IsStage("Recover")
    \/ IsStage("RequestID") /\ ~ IsBase(stage.next)
                            /\ stage.next.mw.kind = "Recover"

\* the request ID in the context Recover was called with
IDAtRecover == IF IsStage("RequestID") THEN sreq.freshID ELSE "unknown"

\* C11 as stated. Recovery: whenever the handler wrapped by Recover panics,
\* with any value and at any point of its execution, the response has status
\* 500, its body carries the request ID, and the panic does not reach the
\* caller of the Recover stage.
C11_Recovery ==
    (UnderRecover /\ BaseOf(stage) # "ok") =>
        /\ sres.panic = << >>
        /\ sres.w.statusCode = 500
        /\ \E i \in 1..Len(sres.w.body) :
              sres.w.body[i].request_id = IDAtRecover

\* the CSRF stage with CSRF enabled got a request with a state-changing method
CSRFChecked ==
    /\ IsStage("CSRF")
    /\ stage.mw.cfg.EnableCSRF
    /\ sreq.method \notin {"GET", "HEAD", "OPTIONS"}

\* a token is present in the CSRF cookie and an equal token is submitted with
\* the request, in the header or in the form field
TokenSubmitted ==
    /\ sreq.csrfCookie # << >>
    /\ sreq.csrfCookie[1] # ""
    /\ \/ sreq.csrfHeader = sreq.csrfCookie[1]
       \/ sreq.csrfForm = sreq.csrfCookie[1]

\* the wrapped handler was invoked
Invoked == sres.seen # << >>

\* the stage answered with this status and did not invoke the handler
ShortCircuited(status) ==
    /\ sres.seen = << >>
    /\ sres.w.wroteHeader
    /\ sres.w.statusCode = status

\* the paths CSRFMiddleware lets through unchecked
CSRFExempt(path) == shouldSkipAuth(path) \/ HasPrefix(path, ApiPrefix)

C14_FormFieldToken ==
    ( /\ CSRFChecked
      /\ sreq.csrfCookie # << >>
      /\ ValidateCSRFToken(stage.mw.cfg.JWTSecret, sreq.csrfCookie[1],
                           sreq.csrfCookie[1])
      /\ sreq.csrfForm = sreq.csrfCookie[1]
      /\ sreq.csrfHeader = "" )
    => (Invoked /\ sres.w.statusCode # 403)

\* the JWT stage with JWT enabled got a request to a path that is not exempt
JWTChecked ==
    /\ IsStage("JWT")
    /\ stage.mw.cfg.EnableJWT
    /\ ~ shouldSkipAuth(sreq.path)

\* the credentials the request carries: the token of a Bearer Authorization
\* header, the value of the auth_token cookie
Carried ==
    (IF sreq.authHeader.words = 2 /\ sreq.authHeader.first = "Bearer"
     THEN {sreq.authHeader.second} ELSE {})
    \cup (IF sreq.authCookie # << >> THEN {sreq.authCookie[1]} ELSE {})

\* the token is one GenerateToken signs with the secret, and it has not
\* expired at the time of the request
GoodCredential(t) ==
    /\ t = GenerateToken(stage.mw.cfg.JWTSecret, t.claims)
    /\ t.claims.Exp >= sreq.clock

\* C15. Auth gate: with JWT enabled, for every request to a non-exempt path
\* the handler is invoked only if the request carries a credential (Bearer
\* header or auth_token cookie) whose signature verifies under the secret and
\* which has not expired, and the identity in the context the handler sees is
\* exactly that token's claims; otherwise the stage answers 401 and the
\* handler is not invoked.
C15_AuthGate ==
    JWTChecked =>
        /\ Invoked =>
              /\ Len(sres.seen) = 1
              /\ \E t \in Carried :
                    /\ GoodCredential(t)
                    /\ sres.seen[1].claims = <<t.claims>>
        /\ ~ Invoked => ShortCircuited(401)
        /\ (\A t \in Carried : ~ GoodCredential(t)) => ShortCircuited(401)

\* a request whose token expires at the very time of the request reached the
\* handler with the token's claims in its context
C15_Witness ==
    /\ JWTChecked
    /\ Invoked
    /\ sres.seen[1].claims # << >>
    /\ sres.seen[1].claims[1].Exp = sreq.clock

\* the handler is wrapped by RequireRole, alone or under JWTAuthMiddleware
RoleAlone == IsStage("RequireRole")
RoleUnderJWT ==
    /\ IsStage("JWT")
    /\ ~ IsBase(stage.next)
    /\ stage.next.mw.kind = "RequireRole"
RequiredRole == IF RoleAlone THEN stage.mw.role ELSE stage.next.mw.role

\* the identity meets the requirement: it has the role, or it is an admin
Meets(claims, role) ==
    /\ claims # << >>
    /\ (claims[1].Role = role \/ claims[1].Role = "admin")

\* C16 as stated. Role gate: a handler wrapped by RequireRole(role) is invoked
\* only when the request context carries an identity whose role meets the
\* requirement; every request whose role requirement is unmet is
\* short-circuited with 403 and the handler is not invoked.
C16_RoleGate ==
    RoleAlone =>
        /\ Invoked => Meets(sreq.ctx.claims, RequiredRole)
        /\ ~ Meets(sreq.ctx.claims, RequiredRole) => ShortCircuited(403)

\* C16 amended. Role gate: a handler wrapped by RequireRole(role) is invoked
\* only when the request context carries an identity whose role is role or
\* admin; a request whose identity has another role is short-circuited with
\* 403, a request with no identity in its context (RequireRole used without
\* the auth stage, or behind an auth stage that is disabled or exempts the
\* path) is short-circuited with 401, and in both cases the handler is not
\* invoked.
C16_RoleGateOrUnauthorized ==
    /\ (RoleAlone \/ RoleUnderJWT) =>
          (Invoked => /\ Len(sres.seen) = 1
                      /\ Meets(sres.seen[1].claims, RequiredRole))
    /\ RoleAlone =>
          /\ Meets(sreq.ctx.claims, RequiredRole) => Invoked
          /\ (sreq.ctx.claims # << >>
              /\ ~ Meets(sreq.ctx.claims, RequiredRole)) => ShortCircuited(403)
          /\ sreq.ctx.claims = << >> => ShortCircuited(401)
    /\ (RoleUnderJWT /\ (~ stage.mw.cfg.EnableJWT \/ shouldSkipAuth(sreq.path)))
          => ShortCircuited(401)

\* an identity with the role user was refused a handler that requires editor
C16_Witness ==
    /\ RoleAlone
    /\ RequiredRole = "editor"
    /\ sreq.ctx.claims # << >>
    /\ sreq.ctx.claims[1].Role = "user"
    /\ ShortCircuited(403)

\* every CORS header is in the response headers
CORSHeadersSet ==
    \A name \in CORSHeaders : \E p \in sres.w.header : p[1] = name

\* no CORS header is in the response headers
NoCORSHeader ==
    \A name \in CORSHeaders : \A p \in sres.w.header : p[1] # name

\* the Origin of the request is allowed: an entry of allowedOrigins is "*" or
\* is the Origin
OriginAllowed ==
    \E i \in 1..Len(stage.mw.allowedOrigins) :
        stage.mw.allowedOrigins[i] \in {"*", sreq.origin}

\* C17 as stated. CORS preflight: the CORS stage answers every OPTIONS request
\* with 204 without invoking the handler, and for every other method it sets
\* the CORS headers and invokes the handler exactly once.
C17_CORSPreflight ==
    IsStage("CORS") =>
        IF sreq.method = "OPTIONS"
        THEN ShortCircuited(204)
        ELSE CORSHeadersSet /\ Len(sres.seen) = 1

\* C17 amended. CORS preflight: the CORS stage answers every OPTIONS request
\* with 204 without invoking the handler, and for every other method it
\* invokes the handler exactly once; for every method it sets the CORS headers
\* when the Origin of the request is allowed, and none of them when it is not.
C17_CORSPreflightAllowedOrigin ==
    IsStage("CORS") =>
        /\ IF sreq.method = "OPTIONS"
           THEN ShortCircuited(204)
           ELSE Len(sres.seen) = 1
        /\ IF OriginAllowed THEN CORSHeadersSet ELSE NoCORSHeader

\* a preflight request from an allowed origin was answered 204 with the
\* CORS headers and without the handler
C17_Witness ==
    /\ IsStage("CORS")
    /\ sreq.method = "OPTIONS"
    /\ sreq.origin = "https://a"
    /\ ShortCircuited(204)
    /\ <<"Access-Control-Allow-Origin", "https://a">> \in sres.w.header

-----------------------------------------------------------------------------
(* Properties of the view engine *)

Preprocessed == rendered # NothingRendered /\ rendered[1].op = "preprocess"

\* the positions of the @ that are immediately followed by a letter, an
\* underscore or a dot
RewritableAts(s) ==
    {i \in 1..(Len(s) - 1) : s[i] = "@" /\ EchoStart(s[i + 1])}

\* a run: a letter, underscore or dot, then letters, digits, underscores, dots
IsRun(t) ==
    /\ Len(t) >= 1
    /\ EchoStart(t[1])
    /\ \A k \in 2..Len(t) : EchoPart(t[k])

\* an expression: a run, optionally followed by one parenthesised argument
\* list
IsExpression(t) ==
    \/ IsRun(t)
    \/ \E m \in 1..(Len(t) - 2) :
          /\ IsRun(SubSeq(t, 1, m))
          /\ t[m + 1] = "("
          /\ t[Len(t)] = ")"
          /\ \A k \in (m + 2)..(Len(t) - 1) : t[k] # ")"

\* the end of the longest expression that starts after the @ of position i
LongestExpression(s, i) ==
    CHOOSE j \in (i + 1)..Len(s) :
        /\ IsExpression(SubSeq(s, i + 1, j))
        /\ \A j2 \in (j + 1)..Len(s) : ~ IsExpression(SubSeq(s, i + 1, j2))

\* s with its first rewritable @ and the longest expression after it
\* replaced by {{ expr }}, and so on in what follows that expression
RECURSIVE Rewritten(_)
Rewritten(s) ==
    IF RewritableAts(s) = {} THEN s
    ELSE LET i == CHOOSE i \in RewritableAts(s) :
                      \A i2 \in RewritableAts(s) : i <= i2
             j == LongestExpression(s, i)
         IN  SubSeq(s, 1, i - 1) \o <<"{", "{", " ">> \o SubSeq(s, i + 1, j)
             \o <<" ", "}", "}">> \o Rewritten(SubSeq(s, j + 1, Len(s)))

\* position k of s lies in a parenthesised list that is not closed before it
InArguments(s, k) ==
    \E j \in 1..(k - 1) : s[j] = "(" /\ \A m \in j..k : s[m] # ")"

\* C20 as stated. Echo rewriting: preprocess replaces every @ that is
\* immediately followed by a letter, underscore or dot by {{ expr }}, expr
\* being the longest run optionally followed by one parenthesised argument
\* list, wherever the @ occurs, and leaves everything else unchanged: no
\* rewritable @ is left in the result.
C20_EveryEchoRewritten ==
    Preprocessed =>
        /\ rendered[1].out = Rewritten(tmpl)
        /\ RewritableAts(rendered[1].out) = {}

\* C20 amended. Echo rewriting: scanning from the left, preprocess replaces
\* every @ that is immediately followed by a letter, underscore or dot by
\* {{ expr }}, expr being the longest run optionally followed by one
\* parenthesised argument list (up to the first closing parenthesis), and
\* goes on after that expression; an @ inside the argument list of a
\* rewritten echo, an @ followed by any other character and all other text
\* are left unchanged.
C20_EchoRewriting ==
    Preprocessed =>
        /\ rendered[1].out = Rewritten(tmpl)
        /\ \A k \in RewritableAts(rendered[1].out) :
              InArguments(rendered[1].out, k)

\* @$ was left alone and the @a1 after it became {{ a1 }}
C20_Witness ==
    /\ Preprocessed
    /\ tmpl = <<"@", "$", "@", "a", "1">>
    /\ rendered[1].out = <<"@", "$", "{", "{", " ", "a", "1", " ", "}", "}">>

Rendering ==
    /\ rendered # NothingRendered
    /\ rendered[1].op \in {"string", "home", "login"}

ByHandler == Rendering /\ rendered[1].op \in {"home", "login"}

\* the lines of a content
RECURSIVE LinesFrom(_, _)
LinesFrom(s, i) ==
    IF s = << >> THEN << >>
    ELSE LET e == Find(s, i, NL)
         IN  <<SubSeq(s, i, e - 1)>>
             \o (IF e > Len(s) THEN << >> ELSE LinesFrom(s, e + 1))

TemplateLines == LinesFrom(tmpl, 1)

\* C12. A template failure becomes a 500: whenever Render returns an error
\* to an HTTP handler (the template file is missing, it does not compile,
\* or its execution fails at any point), the response the client receives
\* has the status 500.
C12_RenderFailureIs500 ==
    (ByHandler /\ rendered[1].err # NoError) => rendered[1].w.statusCode = 500

\* the file was read and Parse returned a template
Compiled == rendered[1].err \in {NoError, "execute"}

\* Render and RenderString put out nothing
NoOutput ==
    IF rendered[1].op = "string" THEN rendered[1].out = << >>
    ELSE rendered[1].rw.body = << >>

\* the go:: lines, and those that open a block: go:: if, range, with
GoLines == {l \in Lines : HasAt(l, 1, GoMarker)}
BlockLines ==
    {l \in GoLines : Words(SubSeq(l, 5, Len(l)), 1)[1] \in Openers}

\* every line of opening is matched by a later ::end line and every ::end
\* line matches a line of opening, in the order of the document
RECURSIVE Matched(_, _, _)
Matched(ls, depth, opening) ==
    IF ls = << >> THEN depth = 0
    ELSE IF Head(ls) \in opening THEN Matched(Tail(ls), depth + 1, opening)
    ELSE IF Head(ls) = LineEnd
    THEN depth > 0 /\ Matched(Tail(ls), depth - 1, opening)
    ELSE Matched(Tail(ls), depth, opening)

\* the same for the block-opening lines, with every go:: else in a block
\* that is open and has no else yet; elses tells, for each open block,
\* innermost last, whether its else was met
RECURSIVE WellNested(_, _)
WellNested(ls, elses) ==
    LET n == Len(elses)
    IN  IF ls = << >> THEN n = 0
        ELSE IF Head(ls) \in BlockLines
        THEN WellNested(Tail(ls), Append(elses, FALSE))
        ELSE IF Head(ls) = LineEnd
        THEN n > 0 /\ WellNested(Tail(ls), SubSeq(elses, 1, n - 1))
        ELSE IF Head(ls) = LineElse
        THEN /\ n > 0
             /\ ~ elses[n]
             /\ WellNested(Tail(ls), [elses EXCEPT ![n] = TRUE])
        ELSE WellNested(Tail(ls), elses)

EchoLines == {LineEcho, LineCall}
FieldOf(l) == IF l = LineEcho THEN FieldError ELSE FieldTitle
Shown(l, show(_), root) ==
    IF l = LineEcho
    THEN <<"<", "p", ">">> \o show(root[FieldError]) \o <<"<", "/", "p", ">">>
    ELSE show(Str(ToUpper(root[FieldTitle].text)))

\* the context supplies what the lines refer to: the field of an echo, a
\* string for the function of a call
Supplies(root, ls) ==
    \A k \in 1..Len(ls) :
        /\ FieldOf(ls[k]) \in DOMAIN root
        /\ ls[k] = LineCall => root[FieldOf(ls[k])].type = "string"

RECURSIVE ShownLines(_, _, _)
ShownLines(ls, show(_), root) ==
    IF ls = << >> THEN << >>
    ELSE IF Len(ls) = 1 THEN Shown(ls[1], show, root)
    ELSE Shown(ls[1], show, root) \o <<NL>> \o ShownLines(Tail(ls), show, root)

Escaped(v) == Escape(v.text)
EscapedUnlessHTML(v) == IF v.type = "HTML" THEN v.text ELSE Escape(v.text)

OnlyTextAndEchoes ==
    /\ Rendering
    /\ rendered[1].op = "string"
    /\ \A k \in 1..Len(TemplateLines) : TemplateLines[k] \in EchoLines
    /\ Supplies(data, TemplateLines)

LStrip(l) == SubSeq(l, SkipBlank(l, 1), Len(l))
RECURSIVE RStrip(_)
RStrip(l) ==
    IF l # << >> /\ Blank(l[Len(l)]) THEN RStrip(SubSeq(l, 1, Len(l) - 1))
    ELSE l

\* the statement of a line whose trimmed content starts with go::
Statement(l) == RStrip(LStrip(SubSeq(LStrip(l), 5, Len(LStrip(l)))))

\* a line as the logic rewriting is stated: {{ statement }} for a line whose
\* trimmed content starts with go:: and goes on with a statement, {{ end }}
\* for a line that is ::end alone, the line itself otherwise
LineRewritten(l) ==
    IF HasAt(LStrip(l), 1, GoMarker) /\ Statement(l) # << >>
    THEN <<"{", "{", " ">> \o Statement(l) \o <<" ", "}", "}">>
    ELSE IF RStrip(LStrip(l)) = EndMarker
    THEN <<"{", "{", " ", "e", "n", "d", " ", "}", "}">>
    ELSE l

RECURSIVE LinesRewritten(_)
LinesRewritten(ls) ==
    IF ls = << >> THEN << >>
    ELSE IF Len(ls) = 1 THEN LineRewritten(ls[1])
    ELSE LineRewritten(ls[1]) \o <<NL>> \o LinesRewritten(Tail(ls))

\* C21. Logic-line rewriting: after the echo rewriting, preprocess turns
\* each line whose trimmed content starts with go:: into {{ statement }},
\* the statement being the rest of that same line, trimmed, and each line
\* that is ::end alone into {{ end }}; the lines are rewritten one by one
\* and every other line keeps its text.
C21_LinesRewrittenOneByOne ==
    Preprocessed =>
        rendered[1].out = LinesRewritten(LinesFrom(echo(tmpl, 1), 1))

\* a text without the white space at its start and at its end
RECURSIVE TrimSpace(_)
TrimSpace(s) ==
    IF s # << >> /\ Space(s[1]) THEN TrimSpace(Tail(s))
    ELSE IF s # << >> /\ Space(s[Len(s)])
    THEN TrimSpace(SubSeq(s, 1, Len(s) - 1))
    ELSE s

\* the action a bracket tag stands for: {{ e }} for <?= e ?>, and the
\* statement between the brackets for <? if e ?>, <? range e ?>, <? else ?>
\* and <? end ?>
TagAction(inner) ==
    <<"{", "{", " ">>
    \o (IF TrimSpace(inner) # << >> /\ TrimSpace(inner)[1] = "="
        THEN TrimSpace(Tail(TrimSpace(inner)))
        ELSE TrimSpace(inner))
    \o <<" ", "}", "}">>

\* a content from position i on with its bracket tags turned into actions
RECURSIVE Normalised(_, _)
Normalised(s, i) ==
    LET p == FindLit(s, i, <<"<", "?">>)
        q == IF p = 0 THEN 0 ELSE FindLit(s, p + 2, <<"?", ">">>)
    IN  IF p = 0 \/ q = 0 THEN SubSeq(s, i, Len(s))
        ELSE SubSeq(s, i, p - 1) \o TagAction(SubSeq(s, p + 2, q - 1))
             \o Normalised(s, q + 2)

\* C22. Legacy dialect: when bracket tags are present, preprocess rewrites
\* <?= e ?>, <? if e ?>, <? range e ?>, <? else ?> and <? end ?> into
\* {{ e }}, {{ if e }}, {{ range e }}, {{ else }} and {{ end }}, before the
\* echo and logic-block rewriting: the result is what the echo and logic
\* rewriting make of the content with its tags rewritten.
C22_LegacyTagsRewritten ==
    Preprocessed =>
        rendered[1].out = endBlocks(goBlocks(echo(Normalised(tmpl, 1), 1), 1), 1)

\* the handler that panics at the same point with the other value
Twin(id) ==
    CASE id = "boomEarly" -> "errEarly"
      [] id = "errEarly" -> "boomEarly"
      [] id = "boomLate" -> "errLate"
      [] id = "errLate" -> "boomLate"

\* the chain h around another base handler
RECURSIVE WithBase(_, _)
WithBase(h, id) ==
    IF IsBase(h) THEN BaseHandler(id) ELSE Wrap(h.mw, WithBase(h.next, id))

PanicValues == {"boom", "runtime error"}

\* C23. The panic detail never reaches the client: for any two panic values
\* raised by a handler under the Recover stage, the responses sent to the
\* client are the same for the same request, and no piece of the body is the
\* panic value.
C23_PanicDetailNotSent ==
    (UnderRecover /\ BaseOf(stage) # "ok") =>
        /\ Exec(WithBase(stage, Twin(BaseOf(stage))), NewWriter, sreq).w
              = sres.w
        /\ \A i \in 1..Len(sres.w.body) :
              sres.w.body[i].text \notin PanicValues

\* a panic with "boom" was answered with the fixed error text
C23_Witness ==
    /\ UnderRecover
    /\ BaseOf(stage) = "boomEarly"
    /\ sres.w.statusCode = 500
    /\ Len(sres.w.body) = 1
    /\ sres.w.body[1].text = "Internal server error"

-----------------------------------------------------------------------------
(* Properties of the unmatched request *)

\* the middlewares whose code ran for the request served last
MiddlewaresRun ==
    {resp.trace[k].id : k \in {j \in 1..Len(resp.trace) :
                                  resp.trace[j].ev \in {"pre", "post"}}}

\* a route registered before the request was served carries a middleware
SomeRouteWrapped ==
    \E i \in 1..resp.nroutes : ~IsBase(routes[i].Handler)

\* C27. Unmatched requests bypass the middleware chain: the middlewares are
\* composed into each route's handler when the route is registered, so a
\* request that no registered route matches is answered 404 by the router
\* itself and the code of no middleware given to Use runs for it.
C27_UnmatchedBypassesChain ==
    (Served /\ Matching = {}) =>
        /\ resp.status = 404
        /\ MiddlewaresRun = {}
        /\ HandlerEvents = {}

\* a 404 from a router whose routes were registered behind a middleware
C27_Witness ==
    /\ Served /\ Matching = {}
    /\ SomeRouteWrapped
    /\ middlewares # << >>

-----------------------------------------------------------------------------
(* The router behind the CORS middleware, asked for preflights *)

RequestMethods == {"GET", "DELETE", "OPTIONS"}

\* r.Use(middleware.CORSMiddleware(...)), the routes registered with the
\* helpers or with Handle("OPTIONS", ...), and the requests
NextPreflight ==
    \/ Use("CORS")
    \/ \E p \in ChainPatterns : GET(p, "h1")
    \/ \E p \in ChainPatterns : POST(p, "h1")
    \/ \E p \in ChainPatterns : PUT(p, "h1")
    \/ \E p \in ChainPatterns : DELETE(p, "h1")
    \/ \E p \in ChainPatterns : PATCH(p, "h1")
    \/ \E p \in ChainPatterns : Handle("OPTIONS", p, "h1")
    \/ \E m \in RequestMethods, p \in ChainPaths : ServeHTTP(m, p)

SpecPreflight == Init /\ [][NextPreflight]_vars

\* the routes, registered before the request, whose pattern matches its path
PathRegistered ==
    {i \in 1..resp.nroutes : match(routes[i].Pattern, req.path).ok}

\* C28. Preflight reaches CORS only through an OPTIONS route: ServeHTTP gives
\* a request to a route only when the request's method is the route's method,
\* so an OPTIONS request for a path registered under other methods only is
\* answered 404 by the router, and the CORS middleware does not run for it.
C28_PreflightNeedsOptionsRoute ==
    Served =>
        /\ resp.route # 0 => routes[resp.route].Method = req.method
        /\ ( /\ req.method = "OPTIONS"
             /\ \A i \in PathRegistered : routes[i].Method # "OPTIONS" )
           => (resp.status = 404 /\ "CORS" \notin MiddlewaresRun)

\* an OPTIONS request for a path that a route behind CORS serves under
\* another method
C28_Witness ==
    /\ Served /\ req.method = "OPTIONS" /\ resp.status = 404
    /\ \E i \in PathRegistered :
          /\ routes[i].Method \in {"GET", "POST", "PUT", "DELETE", "PATCH"}
          /\ ~IsBase(routes[i].Handler)
          /\ routes[i].Handler.mw = "CORS"

-----------------------------------------------------------------------------
(* Requests to the exempt paths and to their neighbours *)

ExemptionPaths ==
    { <<"/", "l", "o", "g", "i", "n">>,
      <<"/", "l", "o", "g", "i", "n", "x">>,
      <<"/", "d", "o", "c", "s", "2">>,
      <<"/", "r", "e", "g", "i", "s", "t", "e", "r", "e", "d">>,
      <<"/", "a", "p", "i", "/", "v", "1", "/", "a", "u", "t", "h", "/", "l", "o", "g", "i", "n", "x">>,
      <<"/", "a", "p", "i", "/", "v", "1", "/", "a", "u", "t", "h", "/", "r", "e", "g", "i", "s", "t", "e", "r">>,
      <<"/", "a", "p", "i", "/", "x">>,
      <<"/", "a", "d", "m", "i", "n">>,
      <<"/", "l", "o", "g">> }

\* JWTAuthMiddleware around a handler; the request carries no credential, a
\* good one or a forged one
ServeExemptJWT ==
    \E jwt \in BOOLEAN, p \in ExemptionPaths,
       header \in {NoAuthHeader,
                   [words |-> 2, first |-> "Bearer",
                    second |-> LongLived("admin")],
                   [words |-> 2, first |-> "Bearer",
                    second |-> [LongLived("admin") EXCEPT !.key = "other"]]},
       cookie \in {<< >>, <<LongLived("user")>>} :
        /\ ServeStage(Wrap(JWTStage(SecurityConfig(TRUE, jwt)), BaseHandler("ok")),
                      [BlankRequest EXCEPT !.path = p,
                                           !.authHeader = header,
                                           !.authCookie = cookie,
                                           !.clock = 1])
        /\ UNCHANGED <<rvars, lvars, tvars, bvars>>

\* CSRFMiddleware around a handler
ServeExemptCSRF ==
    \E csrf \in BOOLEAN, m \in {"GET", "POST"}, p \in ExemptionPaths,
       cookie \in {<< >>, <<"t1">>}, header \in {"", "t1", "forged"} :
        /\ ServeStage(Wrap(CSRFStage(SecurityConfig(csrf, TRUE)),
                           BaseHandler("ok")),
                      [BlankRequest EXCEPT !.method = m, !.path = p,
                                           !.csrfCookie = cookie,
                                           !.csrfHeader = header])
        /\ UNCHANGED <<rvars, lvars, tvars, bvars>>

NextExempt ==
    \/ ServeExemptJWT
    \/ ServeExemptCSRF

SpecExempt == InitStages /\ [][NextExempt]_vars

\* the exempt entries
ExemptEntries ==
    { <<"/", "a", "p", "i", "/", "v", "1", "/", "a", "u", "t", "h", "/", "r", "e", "g", "i", "s", "t", "e", "r">>,
      <<"/", "a", "p", "i", "/", "v", "1", "/", "a", "u", "t", "h", "/", "l", "o", "g", "i", "n">>,
      <<"/", "d", "o", "c", "s">>,
      <<"/", "l", "o", "g", "i", "n">>,
      <<"/", "r", "e", "g", "i", "s", "t", "e", "r">> }

\* the path begins with an exempt entry
BeginsWithExempt(path) == \E e \in ExemptEntries : HasPrefix(path, e)

\* the wrapped handler was called once, with no identity in the context, and
\* its answer is the response
ReachedAnonymous ==
    /\ Len(sres.seen) = 1
    /\ GetClaims(sres.seen[1]) = << >>
    /\ sres.w.statusCode = 200

-----------------------------------------------------------------------------
(* The limiter under a fair scheduler *)

\* an enabled limiter that has seen no request in the minutes before its first
\* cleanup pass; the requests of one client on two goroutines
InitLimiterLive ==
    /\ enabled = TRUE /\ limit = 1
    /\ now = CleanupEvery - 1
    /\ visitors = [ip \in Clients |-> 0]
    /\ requests = << >>
    /\ rlmu = [w |-> Nobody, r |-> {}]
    /\ vmu = << >>
    /\ pc = [g \in Goroutines |-> "idle"]
    /\ loc = [g \in Goroutines |-> [ip |-> Nobody, v |-> 0]]
    /\ out = [g \in Goroutines |-> NoOutcome]
    /\ accepted = [ip \in Clients |-> << >>]
    /\ started = 0
    /\ cl = [pc |-> "sleep", todo |-> {}, tick |-> CleanupEvery]
    /\ NoRouter /\ NoStage /\ NoBroker /\ NoViews

NextLimiterLive == LimiterNext(Goroutines, {"c1"}, MaxTime)

\* A goroutine that can run does run: a step that stays possible is taken.
\* For the steps that wait for a lock this asks less than Go gives, whose
\* sync.Mutex hands the lock to a waiter that has waited long enough and whose
\* sync.RWMutex keeps new readers out behind a blocked writer.  Nothing is
\* asked of the arrival of requests, of the clock or of the start of a
\* cleanup pass.
FairLimiter ==
    /\ \A g \in Goroutines :
          /\ WF_vars(AllowRLock(g))
          /\ WF_vars(AllowLookup(g))
          /\ WF_vars(AllowLock(g))
          /\ WF_vars(AllowStore(g))
          /\ WF_vars(AllowVLock(g))
          /\ WF_vars(AllowCheck(g))
    /\ \A ip \in Clients : WF_vars(CleanupVisit(ip))
    /\ WF_vars(CleanupUnlock)

SpecLimiterLive == InitLimiterLive /\ [][NextLimiterLive]_vars /\ FairLimiter

Threads == Goroutines \cup {Cleaner}

\* who holds the limiter-wide lock, who holds the lock of visitor v
HoldersRL == (IF rlmu.w # Nobody THEN {rlmu.w} ELSE {}) \cup rlmu.r
HoldersV(v) == IF v # 0 /\ vmu[v] # Nobody THEN {vmu[v]} ELSE {}

\* the threads that hold what the thread a is blocked on
Wanted(a) ==
    IF a = Cleaner
    THEN CASE cl.pc = "lock" -> HoldersRL
           [] cl.pc = "range" -> UNION {HoldersV(visitors[ip]) : ip \in cl.todo}
           [] OTHER -> {}
    ELSE CASE pc[a] = "rlock" -> HoldersRL \ rlmu.r
           [] pc[a] = "wlock" -> HoldersRL
           [] pc[a] = "vlock" -> HoldersV(loc[a].v)
           [] OTHER -> {}

WantedByAll(S) == UNION {Wanted(a) : a \in S}

\* the thread waits, directly or through others, for itself
CyclicWait(a) ==
    a \in Wanted(a) \cup WantedByAll(Wanted(a))
                    \cup WantedByAll(WantedByAll(Wanted(a)))

-----------------------------------------------------------------------------
(* The chat broker at work *)

\* Broadcast calls in the runs with stream handlers
MaxBroadcasts == 2
\* Broadcast calls in the runs that fill the history
MaxPosts == 103
\* messages waiting in the broadcast channel in the runs that fill the history
MaxPending == 2

RECURSIVE SumOver(_, _)
SumOver(f, S) ==
    IF S = {} THEN 0
    ELSE f[CHOOSE x \in S : TRUE] + SumOver(f, S \ {CHOOSE x \in S : TRUE})

\* the number of Broadcast calls so far
Posted == SumOver(posted, Rooms)

InitBroker ==
    /\ NoRouter /\ NoLimiter /\ NoViews
    /\ stage = BaseHandler("ok") /\ sreq = BlankRequest /\ sres = NoStageResult
    /\ InitChatBroker

\* stream handlers, senders and Stop, in any order
NextBroker ==
    \/ \E c \in ClientIds, room \in Rooms : StartStream(c, room)
    \/ \E c \in ClientIds : Register(c)
    \/ \E c \in ClientIds : StreamMessage(c)
    \/ \E c \in ClientIds : StreamClosed(c)
    \/ \E c \in ClientIds : StreamDisconnect(c)
    \/ \E c \in ClientIds : Unregister(c)
    \/ \E room \in Rooms : Posted < MaxBroadcasts /\ Broadcast(room)
    \/ StartBroadcast
    \/ Stop
    \/ StartDone

SpecBroker == InitBroker /\ [][NextBroker]_vars

\* A goroutine that can go on does: the loop of Start takes a case that is
\* ready, a handler goes on when its channel operation can proceed.  Nothing
\* is asked of the arrival of requests, of a client going away or of Stop.
FairBroker ==
    /\ \A c \in ClientIds :
          /\ WF_vars(Register(c))
          /\ WF_vars(StreamMessage(c))
          /\ WF_vars(StreamClosed(c))
          /\ WF_vars(Unregister(c))
    /\ WF_vars(StartBroadcast)
    /\ WF_vars(StartDone)

SpecBrokerLive == InitBroker /\ [][NextBroker]_vars /\ FairBroker

\* senders only: the history fills up
NextHistory ==
    \/ \E room \in Rooms :
          /\ Posted < MaxPosts
          /\ Len(broadcast) < MaxPending
          /\ Broadcast(room)
    \/ StartBroadcast

SpecHistory == InitBroker /\ [][NextHistory]_vars

-----------------------------------------------------------------------------
(* Properties of the chat broker *)

\* the last k of the n messages broadcast so far to the room
LastBroadcast(room, n, k) == [i \in 1..k |-> Message(room, n - k + i)]

\* C24. Chat history bound: after any sequence of broadcasts the history of
\* every room holds at most 100 messages, and they are the messages broadcast
\* most recently to that room, in the order of their broadcast.
C24_HistoryBound ==
    \A room \in Rooms :
        /\ Len(history[room]) <= 100
        /\ history[room] =
              LastBroadcast(room, handled[room],
                            IF handled[room] > 100 THEN 100 ELSE handled[room])

\* a room that was sent more than 100 messages, beside a room with fewer
C24_Witness ==
    \E room, other \in Rooms :
        /\ handled[room] > 100
        /\ Len(history[room]) = 100
        /\ handled[other] > 0 /\ handled[other] < 100

\* every stream handler is out of the broker: it has not started or it has
\* returned
HandlersReturned ==
    \A c \in ClientIds : stream[c].pc \in {"idle", "returned"}

\* the channel of every client that was registered is closed
ChannelsClosed ==
    \A c \in ClientIds :
        stream[c].pc \in {"loop", "unregister", "returned"} => messages[c].closed

\* C25. Graceful shutdown of the chat broker: after Stop is called, every
\* registered client's channel is closed, the client map is emptied, and
\* every stream handler in flight eventually returns: no goroutine stays
\* blocked for ever on Register, Unregister or Broadcast.
C25_GracefulShutdown ==
    done ~> (/\ ~ running
             /\ clients = {}
             /\ ChannelsClosed
             /\ HandlersReturned)

\* C26. Chat broker channel safety: however the Register, Unregister,
\* Broadcast and Stop calls of the handlers interleave, the broker never
\* sends on a closed client channel and never closes a client channel twice,
\* and a message broadcast to a room is sent only to clients whose RoomID is
\* that room.
C26_ChannelSafety ==
    /\ SendOnClosed \notin panics
    /\ CloseOfClosed \notin panics
    /\ \A d \in delivered : d.room = stream[d.to].RoomID

\* after Stop: one client was closed by unregisterClient, another, of another
\* room, by shutdown, and a message was sent to one of them
C26_Witness ==
    /\ ~ running
    /\ \E c, k \in ClientIds :
          /\ stream[c].pc = "returned" /\ messages[c].closed
          /\ stream[k].pc \in {"loop", "unregister"} /\ messages[k].closed
          /\ stream[c].RoomID # stream[k].RoomID
          /\ \E d \in delivered : d.to \in {c, k}

====
